---- MODULE Spec2Model ----
(***************************************************************************)
(* A model of the checking and compilation pipeline of guppylang:          *)
(*   - CompilationEngine (engine.py): the parsed / checked caches, the two  *)
(*     check worklists and the drain loop of check();                       *)
(*   - CompilerContext (compiler/core.py): the compiled cache, the compile  *)
(*     worklist and the body-lowering loop of compile();                    *)
(*   - partial monomorphization: compile_variable_idx, type_var_to_hugr,    *)
(*     const_var_to_hugr;                                                   *)
(*   - track_hugr_side_effects: the patched Hugr.add_node and the order     *)
(*     edges it inserts.                                                    *)
(* Python dicts are modelled as sequences of keys without repetition, in    *)
(* insertion order: d[k] = v appends k unless it is present, popitem()      *)
(* removes the last key.                                                    *)
(***************************************************************************)
EXTENDS Integers, Sequences, FiniteSets, TLC

VARIABLES
    \* ---- CompilationEngine (engine.py) ----
    parsed,                   \* keys of ENGINE.parsed
    checked,                  \* keys of ENGINE.checked
    types_to_check_worklist,  \* keys of ENGINE.types_to_check_worklist, in insertion order
    to_check_worklist,        \* keys of ENGINE.to_check_worklist, in insertion order
    estack,                   \* the Python call stack: parse()/check() calls in progress
    epc,                      \* position of the top-level caller: idle, drain, done, error
    ecalls,                   \* number of calls the parser/checker made back into the engine
    checkRuns,                \* history: how often defn.check ran for each key since reset()
    requests,                 \* history: get_checked calls per key since reset(), up to 2
    popLog,                   \* history: the drain loop's takes, with the state they saw
    typesEnqueued,            \* history: ids put on the types-first worklist since reset()
    generalEnqueued,          \* history: keys put on to_check_worklist since reset()
    \* ---- CompilerContext (compiler/core.py) ----
    compiled,                 \* CompilerContext.compiled: MonoDefId -> compiled definition
    worklist,                 \* keys of CompilerContext.worklist, in insertion order
    current_mono_args,        \* CompilerContext.current_mono_args
    cpc,                      \* position inside CompilerContext.compile
    lowering,                 \* <<MonoDefId being lowered, mono args saved on entry>>
    cbuilds,                  \* number of build_compiled_def calls made by compile_inner
    outerRuns,                \* history: compile_outer runs per key
    innerRuns,                \* history: compile_inner runs per key
    buildLog,                 \* history: <<key, result>> of every build_compiled_def call
    buildCalls,               \* history: build_compiled_def calls per key, up to 2
    nestedRegistered,         \* history: keys registered while another body was lowered
    \* ---- conversion of bound variables (compiler/core.py) ----
    m_call,                   \* the conversion last called, with its argument
    m_out,                    \* what that call returned or raised
    \* ---- track_hugr_side_effects (compiler/core.py) ----
    hugr,                     \* the Hugr: node i is hugr[i] = [op, parent, phase]
    order_links,              \* the add_order_link calls, in order: <<src, dst>>
    prev_node_with_side_effect, \* the tracker's dict, as <<parent, node>> pairs
    add_node,                 \* what Hugr.add_node is bound to
    tpc,                      \* position of the tracked interval
    recorded,                 \* history: the <<scope, node>> pairs recorded, in order
    \* ---- insert_drops (compiler/core.py) ----
    d_nodes,                  \* the Hugr the pass runs over: d_nodes[i] = [op, parent, outs]
    d_runs,                   \* how often insert_drops has run over it
    d_before,                 \* history: the graph before the first run
    d_first,                  \* history: the graph after the first run
    \* ---- DFContainer (compiler/core.py) ----
    df_maps,                  \* the dicts in memory: each a function place id -> wire
    df_ref,                   \* df_ref[c]: the dict that is container c's `locals`
    df_ops,                   \* the operations added through the shared builder
    df_calls,                 \* number of calls made on the containers
    df_last,                  \* the call made last: its arguments, the locals before, the result
    \* ---- check_protocol (checker/protocol_checker.py) ----
    p_in,                     \* the call's arguments and the definitions the engine holds
    p_out,                    \* what the call returned or raised; NotCalled before it
    \* ---- _unify_args (checker/protocol_checker.py) ----
    u_in,                     \* the two argument lists
    u_out,                    \* the substitution, None or the error; NotCalled before the call
    \* ---- check_not_recursive (definition/struct.py, definition/enum.py) ----
    r_defs,                   \* the parsed type definitions: their kinds and field annotations
    r_hook,                   \* r_hook[d]: the check_instantiate installed on definition d
    r_out,                    \* the definition checked and the outcome; NotCalled before
    \* ---- top-level runs of the engine (engine.py) ----
    t_engine,                 \* ENGINE's caches and worklists, entries tagged with their run
    t_store,                  \* DEF_STORE: the generated methods registered, and impls
    t_call,                   \* the top-level call: where it is, check or compile, its error
    t_run,                    \* number of top-level calls started
    t_ctx,                    \* the CompilerContext made last: its number and its run
    \* ---- CompilerContext.global_funcs and require_monomorphization (compiler/core.py) ----
    g_funcs,                  \* global_funcs: (const id, mono args) -> function builder
    g_module,                 \* the functions defined in the module, in order
    g_log,                    \* what each declare_global_func call was given and returned
    q_in,                     \* the params require_monomorphization is called on
    q_out,                    \* its result; NotCalled before
    \* ---- RawEnumDef.parse (definition/enum.py) ----
    n_body,                   \* the statements of the enum class body
    n_out                     \* what parse returned or raised; NotCalled before

engineVars == <<parsed, checked, types_to_check_worklist, to_check_worklist,
                estack, epc, ecalls, checkRuns, requests, popLog, typesEnqueued,
                generalEnqueued>>

ctxVars == <<compiled, worklist, current_mono_args, cpc, lowering, cbuilds,
             outerRuns, innerRuns, buildLog, buildCalls, nestedRegistered>>

monoVars == <<m_call, m_out>>

trackVars == <<hugr, order_links, prev_node_with_side_effect, add_node, tpc, recorded>>

dropVars == <<d_nodes, d_runs, d_before, d_first>>

\* The state of the passes and helpers that work on one finished piece of data.
dfVars == <<df_maps, df_ref, df_ops, df_calls, df_last>>

protoVars == <<p_in, p_out>>

unifyVars == <<u_in, u_out>>

recVars == <<r_defs, r_hook, r_out>>

topVars == <<t_engine, t_store, t_call, t_run, t_ctx>>

coreVars == <<g_funcs, g_module, g_log, q_in, q_out>>

enumVars == <<n_body, n_out>>

passVars == <<dropVars, dfVars, protoVars, unifyVars, recVars, topVars, coreVars, enumVars>>

vars == <<engineVars, ctxVars, monoVars, trackVars, passVars>>

Range(s) == {s[i] : i \in 1..Len(s)}

\* dict.__setitem__ on an insertion-ordered dict: an existing key keeps its place.
DictPut(d, k) == IF k \in Range(d) THEN d ELSE Append(d, k)

\* dict.popitem(): the key inserted last.
PopitemKey(d) == d[Len(d)]

PopitemRest(d) == SubSeq(d, 1, Len(d) - 1)

(***************************************************************************)
(* The definitions of one session.  T1, T2: parsed struct or enum          *)
(* definitions                                                             *)
(* (TypeDef and CheckableDef); B1: a builtin type definition (TypeDef,     *)
(* not checkable); F1: a non-generic checkable definition; G0, G1:         *)
(* CheckableGenericDef without / with generic parameters.                  *)
(***************************************************************************)
DefIds == {"T1", "T2", "B1", "F1", "G0", "G1"}

IsTypeDef(id) == id \in {"T1", "T2", "B1"}

IsCheckableDef(id) == id \in {"T1", "T2", "F1"}

IsCheckableGenericDef(id) == id \in {"G0", "G1"}

\* defn.params of a CheckableGenericDef: G1 has one generic parameter.
HasParams(id) == id = "G1"

\* The MonoArgs a definition can be instantiated with.
TypeArg(ty) == [arg |-> "TypeArg", ty |-> ty]

MonoArgsOf(id) ==
    IF HasParams(id) THEN {<<TypeArg("bool")>>, <<TypeArg("int")>>} ELSE {<<>>}

MonoDefIds ==
    {<<id, m>> : id \in DefIds, m \in {<<>>, <<TypeArg("bool")>>, <<TypeArg("int")>>}}

MaxCalls == 3

\* A frame of the call stack: defn.parse (kind "parse") or defn.check (kind "check")
\* in progress for `id`; `cont` says whether get_checked continues after the parse.
Frame(kind, id, mono, cont) == [kind |-> kind, id |-> id, mono |-> mono, cont |-> cont]

OnStack(kind, id, mono) ==
    \E i \in 1..Len(estack) :
        /\ estack[i].id = id
        /\ \/ estack[i].kind = "parse"
           \/ kind = "check" /\ estack[i].kind = "check" /\ estack[i].mono = mono

\* CompilationEngine.reset
ResetParsed == {}

\* get_parsed, lines 206-209: where a freshly parsed definition is enqueued.
EnqueueTypes(id, wl) == IF IsTypeDef(id) THEN DictPut(wl, id) ELSE wl

EnqueueGeneral_mut(id, wl) ==
    IF ~IsTypeDef(id) THEN DictPut(wl, <<id, <<>>>>) ELSE wl

EnqueueGeneral(id, wl) ==
    IF ~IsTypeDef(id) /\ IsCheckableDef(id) THEN DictPut(wl, <<id, <<>>>>) ELSE wl

IsCached_mut(key) == FALSE

\* get_checked, line 226: `if (id, mono_args) in self.checked`
IsCached(key) == key \in checked

\* get_checked, lines 229-232: defn.check runs for checkable definitions only.
RunsCheck(id) == IsCheckableDef(id) \/ IsCheckableGenericDef(id)

TakeFromTypes_mut == types_to_check_worklist # <<>> /\ to_check_worklist = <<>>

\* check, line 272: `if self.types_to_check_worklist:`
TakeFromTypes == types_to_check_worklist # <<>>

WorklistsEmpty_mut == types_to_check_worklist = <<>>

\* check, line 268: `while self.types_to_check_worklist or self.to_check_worklist`,
\* negated
WorklistsEmpty == types_to_check_worklist = <<>> /\ to_check_worklist = <<>>

\* check_valid_entry_point
ValidEntryPoint_mut(id) == TRUE

ValidEntryPoint(id) == ~(IsCheckableGenericDef(id) /\ HasParams(id))

EngineInit ==
    /\ parsed = {}
    /\ checked = {}
    /\ types_to_check_worklist = <<>>
    /\ to_check_worklist = <<>>
    /\ estack = <<>>
    /\ epc = "idle"
    /\ ecalls = 0
    /\ checkRuns = [k \in MonoDefIds |-> 0]
    /\ requests = [k \in MonoDefIds |-> 0]
    /\ popLog = <<>>
    /\ typesEnqueued = {}
    /\ generalEnqueued = {}

\* History of get_checked calls, counted up to 2.
Requested(key) == [requests EXCEPT ![key] = IF @ < 2 THEN @ + 1 ELSE @]

\* History entry of one take of the drain loop: the worklist it took from, and what
\* the types-first worklist and the checked cache held at that moment.
Taken(from) ==
    [from |-> from,
     typesLeft |-> Len(types_to_check_worklist),
     typesPending |-> {t \in typesEnqueued : <<t, <<>>>> \notin checked}]

(***************************************************************************)
(* get_checked(id, mono_args) up to the point where control passes to the  *)
(* parser or the checker: returns the stack after the call started.  The   *)
(* cache hit returns at once; otherwise get_parsed runs (cache hit, or     *)
(* defn.parse starts) and then defn.check starts.                          *)
(***************************************************************************)
BeginGetChecked(id, mono) ==
    IF IsCached(<<id, mono>>) THEN
        UNCHANGED <<estack, checked, checkRuns>>
    ELSE IF id \notin parsed THEN
        /\ estack' = Append(estack, Frame("parse", id, mono, "check"))
        /\ UNCHANGED <<checked, checkRuns>>
    ELSE IF RunsCheck(id) THEN
        /\ estack' = Append(estack, Frame("check", id, mono, "none"))
        /\ checkRuns' = [checkRuns EXCEPT ![<<id, mono>>] = @ + 1]
        /\ UNCHANGED checked
    ELSE
        /\ checked' = checked \cup {<<id, mono>>}
        /\ UNCHANGED <<estack, checkRuns>>

\* ENGINE.check(id), lines 262-266: reset, parse the entry point, validate it and
\* seed the worklist.  The entry point's parse may call back into the engine.
Check(id) ==
    /\ epc = "idle"
    /\ parsed' = ResetParsed
    /\ checked' = {}
    /\ types_to_check_worklist' = <<>>
    /\ to_check_worklist' = <<>>
    /\ checkRuns' = [k \in MonoDefIds |-> 0]
    /\ requests' = [k \in MonoDefIds |-> 0]
    /\ typesEnqueued' = {}
    /\ generalEnqueued' = {}
    /\ popLog' = <<>>
    /\ ecalls' = 0
    /\ estack' = <<Frame("parse", id, <<>>, "entry")>>
    /\ epc' = "entry"
    /\ UNCHANGED <<ctxVars, monoVars, trackVars, passVars>>

\* get_parsed, lines 205-214, after defn.parse returned; when get_checked made the
\* call, it goes on with defn.check (lines 229-233).
ParseReturns ==
    /\ estack # <<>>
    /\ LET f == estack[Len(estack)]
           rest == SubSeq(estack, 1, Len(estack) - 1)
           wl == EnqueueGeneral(f.id, to_check_worklist)
       IN /\ f.kind = "parse"
          /\ parsed' = parsed \cup {f.id}
          /\ types_to_check_worklist' = EnqueueTypes(f.id, types_to_check_worklist)
          /\ typesEnqueued' = IF IsTypeDef(f.id) THEN typesEnqueued \cup {f.id}
                              ELSE typesEnqueued
          /\ IF f.cont = "entry" THEN
                \* check, lines 265-266
                /\ estack' = rest
                /\ IF ValidEntryPoint(f.id) THEN
                      /\ to_check_worklist' = DictPut(wl, <<f.id, <<>>>>)
                      /\ epc' = "drain"
                   ELSE
                      /\ to_check_worklist' = wl
                      /\ epc' = "error"
                /\ UNCHANGED <<checked, checkRuns>>
             ELSE IF f.cont = "check" THEN
                /\ to_check_worklist' = wl
                /\ IF RunsCheck(f.id) THEN
                      /\ estack' = Append(rest, Frame("check", f.id, f.mono, "none"))
                      /\ checkRuns' = [checkRuns EXCEPT ![<<f.id, f.mono>>] = @ + 1]
                      /\ UNCHANGED checked
                   ELSE
                      /\ estack' = rest
                      /\ checked' = checked \cup {<<f.id, f.mono>>}
                      /\ UNCHANGED checkRuns
                /\ UNCHANGED epc
             ELSE
                /\ to_check_worklist' = wl
                /\ estack' = rest
                /\ UNCHANGED <<checked, checkRuns, epc>>
    /\ generalEnqueued' = generalEnqueued \cup Range(to_check_worklist')
    /\ UNCHANGED <<ecalls, requests, popLog>>
    /\ UNCHANGED <<ctxVars, monoVars, trackVars, passVars>>

\* get_checked, lines 233-242, after defn.check returned (and line 277 when the
\* drain loop made the call: the same assignment again).
CheckReturns ==
    /\ estack # <<>>
    /\ LET f == estack[Len(estack)]
       IN /\ f.kind = "check"
          /\ checked' = checked \cup {<<f.id, f.mono>>}
          /\ estack' = SubSeq(estack, 1, Len(estack) - 1)
    /\ UNCHANGED <<parsed, types_to_check_worklist, to_check_worklist, epc, ecalls,
                   checkRuns, requests, popLog, typesEnqueued, generalEnqueued>>
    /\ UNCHANGED <<ctxVars, monoVars, trackVars, passVars>>

\* A user error raised by the parser or the checker unwinds to the top-level caller.
CheckRaises ==
    /\ estack # <<>>
    /\ estack' = <<>>
    /\ epc' = "error"
    /\ UNCHANGED <<parsed, checked, types_to_check_worklist, to_check_worklist, ecalls,
                   checkRuns, requests, popLog, typesEnqueued, generalEnqueued>>
    /\ UNCHANGED <<ctxVars, monoVars, trackVars, passVars>>

\* check, lines 268-277: one iteration of the drain loop.
DrainStep ==
    /\ epc = "drain"
    /\ estack = <<>>
    /\ ~WorklistsEmpty
    /\ IF TakeFromTypes THEN
          /\ types_to_check_worklist' = PopitemRest(types_to_check_worklist)
          /\ popLog' = Append(popLog, Taken("types"))
          /\ requests' = Requested(<<PopitemKey(types_to_check_worklist), <<>>>>)
          /\ BeginGetChecked(PopitemKey(types_to_check_worklist), <<>>)
          /\ UNCHANGED to_check_worklist
       ELSE
          /\ to_check_worklist' = PopitemRest(to_check_worklist)
          /\ popLog' = Append(popLog, Taken("general"))
          /\ requests' = Requested(PopitemKey(to_check_worklist))
          /\ BeginGetChecked(PopitemKey(to_check_worklist)[1],
                             PopitemKey(to_check_worklist)[2])
          /\ UNCHANGED types_to_check_worklist
    /\ UNCHANGED <<parsed, epc, ecalls, typesEnqueued, generalEnqueued>>
    /\ UNCHANGED <<ctxVars, monoVars, trackVars, passVars>>

\* check, line 268: the loop condition fails and check returns.
DrainExit ==
    /\ epc = "drain"
    /\ estack = <<>>
    /\ WorklistsEmpty
    /\ epc' = "done"
    /\ UNCHANGED <<parsed, checked, types_to_check_worklist, to_check_worklist, estack,
                   ecalls, checkRuns, requests, popLog, typesEnqueued, generalEnqueued>>
    /\ UNCHANGED <<ctxVars, monoVars, trackVars, passVars>>

\* The parser or the checker looks up a definition: ENGINE.get_parsed(id), lines 200-204.
NestedGetParsed(id) ==
    /\ estack # <<>>
    /\ ecalls < MaxCalls
    /\ ~OnStack("parse", id, <<>>)
    /\ ecalls' = ecalls + 1
    /\ estack' = IF id \in parsed THEN estack
                 ELSE Append(estack, Frame("parse", id, <<>>, "none"))
    /\ UNCHANGED <<parsed, checked, types_to_check_worklist, to_check_worklist, epc,
                   checkRuns, requests, popLog, typesEnqueued, generalEnqueued>>
    /\ UNCHANGED <<ctxVars, monoVars, trackVars, passVars>>

\* The checker meets a use of a generic definition: register_generic_use, lines 250-251.
NestedRegisterGenericUse(id, mono) ==
    /\ estack # <<>>
    /\ estack[Len(estack)].kind = "check"
    /\ ecalls < MaxCalls
    /\ IsCheckableGenericDef(id)
    /\ id \in parsed
    /\ mono \in MonoArgsOf(id)
    /\ ecalls' = ecalls + 1
    /\ to_check_worklist' = DictPut(to_check_worklist, <<id, mono>>)
    /\ generalEnqueued' = generalEnqueued \cup {<<id, mono>>}
    /\ UNCHANGED <<parsed, checked, types_to_check_worklist, estack, epc, checkRuns,
                   requests, popLog, typesEnqueued>>
    /\ UNCHANGED <<ctxVars, monoVars, trackVars, passVars>>

\* The checker needs a checked definition: ENGINE.get_checked(id, mono_args).
NestedGetChecked(id, mono) ==
    /\ estack # <<>>
    /\ estack[Len(estack)].kind = "check"
    /\ ecalls < MaxCalls
    /\ mono \in MonoArgsOf(id)
    /\ ~OnStack("check", id, mono)
    /\ ecalls' = ecalls + 1
    /\ requests' = Requested(<<id, mono>>)
    /\ BeginGetChecked(id, mono)
    /\ UNCHANGED <<parsed, types_to_check_worklist, to_check_worklist, epc, popLog,
                   typesEnqueued, generalEnqueued>>
    /\ UNCHANGED <<ctxVars, monoVars, trackVars, passVars>>

\* After check returned, the compile context asks for checked definitions:
\* build_compiled_def -> ENGINE.get_checked (compiler/core.py, line 134).
CompileGetChecked(id, mono) ==
    /\ epc = "done"
    /\ estack = <<>>
    /\ ecalls < MaxCalls
    /\ mono \in MonoArgsOf(id)
    /\ ecalls' = ecalls + 1
    /\ requests' = Requested(<<id, mono>>)
    /\ BeginGetChecked(id, mono)
    /\ UNCHANGED <<parsed, types_to_check_worklist, to_check_worklist, epc, popLog,
                   typesEnqueued, generalEnqueued>>
    /\ UNCHANGED <<ctxVars, monoVars, trackVars, passVars>>

EngineNext ==
    \/ \E id \in DefIds : Check(id)
    \/ ParseReturns
    \/ CheckReturns
    \/ CheckRaises
    \/ DrainStep
    \/ DrainExit
    \/ \E id \in DefIds : NestedGetParsed(id)
    \/ \E id \in DefIds : \E mono \in MonoArgsOf(id) : NestedRegisterGenericUse(id, mono)
    \/ \E id \in DefIds : \E mono \in MonoArgsOf(id) : NestedGetChecked(id, mono)
    \/ \E id \in DefIds : \E mono \in MonoArgsOf(id) : CompileGetChecked(id, mono)

(***************************************************************************)
(*                         CompilerContext                                 *)
(***************************************************************************)
MaxBuilds == 3

\* `current_mono_args is None`: no active monomorphization.
NoneArgs == <<[arg |-> "no monomorphization"]>>

\* CompilableDef: checked function definitions have compile_outer; checked type
\* definitions are CompiledDef already.
IsCompilableDef(id) == ~IsTypeDef(id)

EmptyMap == [k \in {} |-> <<>>]

\* CompilerContext.__init__, lines 109-114
CtxInitRest ==
    /\ compiled = EmptyMap
    /\ worklist = <<>>
    /\ cpc = "idle"
    /\ lowering = <<>>
    /\ cbuilds = 0
    /\ outerRuns = [k \in MonoDefIds |-> 0]
    /\ innerRuns = [k \in MonoDefIds |-> 0]
    /\ buildLog = {}
    /\ buildCalls = [k \in MonoDefIds |-> 0]
    /\ nestedRegistered = {}

CtxInit == CtxInitRest /\ current_mono_args = NoneArgs

\* The state ENGINE.check(entry) leaves behind (engine.py, line 285), with only the
\* entry point recorded: everything else is checked on demand by get_checked.
EngineAfterCheck ==
    \E entry \in {id \in DefIds : ValidEntryPoint(id)} :
        /\ parsed = {entry}
        /\ checked = {<<entry, <<>>>>}
        /\ types_to_check_worklist = <<>>
        /\ to_check_worklist = <<>>
        /\ estack = <<>>
        /\ epc = "done"
        /\ ecalls = 0
        /\ checkRuns = [k \in MonoDefIds |->
                           IF k = <<entry, <<>>>> /\ RunsCheck(entry) THEN 1 ELSE 0]
        /\ requests = [k \in MonoDefIds |-> IF k = <<entry, <<>>>> THEN 1 ELSE 0]
        /\ popLog = <<>>
        /\ typesEnqueued = IF IsTypeDef(entry) THEN {entry} ELSE {}
        /\ generalEnqueued = {<<entry, <<>>>>}

\* ENGINE.get_checked as one step (the callbacks of parser and checker left out):
\* get_parsed's enqueueing, the check and the cache update.
GetCheckedAtomic(id, mono) ==
    /\ requests' = Requested(<<id, mono>>)
    /\ IF IsCached(<<id, mono>>) THEN
          UNCHANGED <<parsed, checked, types_to_check_worklist, to_check_worklist,
                      checkRuns, typesEnqueued, generalEnqueued>>
       ELSE
          /\ parsed' = parsed \cup {id}
          /\ types_to_check_worklist' =
                 IF id \in parsed THEN types_to_check_worklist
                 ELSE EnqueueTypes(id, types_to_check_worklist)
          /\ to_check_worklist' =
                 IF id \in parsed THEN to_check_worklist
                 ELSE EnqueueGeneral(id, to_check_worklist)
          /\ typesEnqueued' = IF id \notin parsed /\ IsTypeDef(id)
                              THEN typesEnqueued \cup {id} ELSE typesEnqueued
          /\ generalEnqueued' = generalEnqueued \cup Range(to_check_worklist')
          /\ checkRuns' = IF RunsCheck(id)
                          THEN [checkRuns EXCEPT ![<<id, mono>>] = @ + 1]
                          ELSE checkRuns
          /\ checked' = checked \cup {<<id, mono>>}
    /\ UNCHANGED <<estack, epc, ecalls, popLog>>

InCompiledCache_mut(key) == FALSE

\* build_compiled_def, line 133: `(def_id, mono_args) not in self.compiled`, negated
InCompiledCache(key) == key \in DOMAIN compiled

WorklistPut_mut(wl, key) == Append(wl, key)

\* `self.worklist[def_id, mono_args] = None`, lines 138 and 149
WorklistPut(wl, key) == DictPut(wl, key)

\* The definition compile_outer returns: a new object per run; a definition that is
\* not a CompilableDef is stored as the checked definition itself.
CompiledObject(key) ==
    IF IsCompilableDef(key[1]) THEN <<"compiled", key, outerRuns[key] + 1>>
    ELSE <<"checked", key>>

\* The CompilerContext state after build_compiled_def(def_id, type_args), lines 132-139.
BuiltCompiled(key) ==
    IF InCompiledCache(key) THEN compiled ELSE (key :> CompiledObject(key)) @@ compiled

BuiltWorklist(key) ==
    IF InCompiledCache(key) THEN worklist ELSE WorklistPut(worklist, key)

BuiltOuterRuns(key) ==
    IF ~InCompiledCache(key) /\ IsCompilableDef(key[1])
    THEN [outerRuns EXCEPT ![key] = @ + 1] ELSE outerRuns

BuildCalled(key) == [buildCalls EXCEPT ![key] = IF @ < 2 THEN @ + 1 ELSE @]

\* build_compiled_def called from a body being lowered (compile_inner).
BuildCompiledDef(id, mono) ==
    /\ cpc = "lowering"
    /\ cbuilds < MaxBuilds
    /\ mono \in MonoArgsOf(id)
    /\ cbuilds' = cbuilds + 1
    /\ IF InCompiledCache(<<id, mono>>)
       THEN UNCHANGED engineVars
       ELSE GetCheckedAtomic(id, mono)
    /\ compiled' = BuiltCompiled(<<id, mono>>)
    /\ worklist' = BuiltWorklist(<<id, mono>>)
    /\ outerRuns' = BuiltOuterRuns(<<id, mono>>)
    /\ buildLog' = buildLog \cup {<<<<id, mono>>, compiled'[<<id, mono>>]>>}
    /\ buildCalls' = BuildCalled(<<id, mono>>)
    /\ nestedRegistered' = IF InCompiledCache(<<id, mono>>) THEN nestedRegistered
                           ELSE nestedRegistered \cup {<<id, mono>>}
    /\ UNCHANGED <<current_mono_args, cpc, lowering, innerRuns>>
    /\ UNCHANGED <<monoVars, trackVars, passVars>>

\* CompilerContext.compile, lines 145-149: the entry point is built, stored and put
\* on the worklist a second time.  ENGINE.check has checked it before (engine.py,
\* lines 285 and 296).
Compile(id) ==
    /\ cpc = "idle"
    /\ ValidEntryPoint(id)
    /\ <<id, <<>>>> \in checked
    /\ LET key == <<id, <<>>>>
       IN /\ IF InCompiledCache(key)
             THEN UNCHANGED engineVars
             ELSE GetCheckedAtomic(id, <<>>)
          /\ compiled' = (key :> BuiltCompiled(key)[key]) @@ BuiltCompiled(key)
          /\ worklist' = WorklistPut(BuiltWorklist(key), key)
          /\ outerRuns' = BuiltOuterRuns(key)
          /\ buildLog' = buildLog \cup {<<key, BuiltCompiled(key)[key]>>}
          /\ buildCalls' = BuildCalled(key)
    /\ cpc' = "loop"
    /\ UNCHANGED <<current_mono_args, lowering, cbuilds, innerRuns, nestedRegistered>>
    /\ UNCHANGED <<monoVars, trackVars, passVars>>

\* compile, lines 152-156: the next body is taken and its lowering starts under
\* set_monomorphized_args (lines 121-122).
LowerBegin ==
    /\ cpc = "loop"
    /\ worklist # <<>>
    /\ worklist' = PopitemRest(worklist)
    /\ lowering' = <<PopitemKey(worklist), current_mono_args>>
    /\ current_mono_args' = PopitemKey(worklist)[2]
    /\ innerRuns' = [innerRuns EXCEPT ![PopitemKey(worklist)] = @ + 1]
    /\ cpc' = "lowering"
    /\ UNCHANGED <<compiled, cbuilds, outerRuns, buildLog, buildCalls, nestedRegistered>>
    /\ UNCHANGED engineVars
    /\ UNCHANGED <<monoVars, trackVars, passVars>>

\* compile_inner returns; set_monomorphized_args resumes after its yield (line 124).
LowerEnd ==
    /\ cpc = "lowering"
    /\ current_mono_args' = lowering[2]
    /\ lowering' = <<>>
    /\ cpc' = "loop"
    /\ UNCHANGED <<compiled, worklist, cbuilds, outerRuns, innerRuns, buildLog,
                   buildCalls, nestedRegistered>>
    /\ UNCHANGED engineVars
    /\ UNCHANGED <<monoVars, trackVars, passVars>>

\* compile_inner raises: the exception leaves both context managers and compile;
\* set_monomorphized_args has no try/finally, so line 124 does not run.
LowerRaises ==
    /\ cpc = "lowering"
    /\ lowering' = <<>>
    /\ cpc' = "error"
    /\ UNCHANGED <<compiled, worklist, current_mono_args, cbuilds, outerRuns, innerRuns,
                   buildLog, buildCalls, nestedRegistered>>
    /\ UNCHANGED engineVars
    /\ UNCHANGED <<monoVars, trackVars, passVars>>

\* compile, lines 152 and 161-163: the worklist is empty, drops are inserted and
\* compile returns.
CompileReturns ==
    /\ cpc = "loop"
    /\ worklist = <<>>
    /\ cpc' = "done"
    /\ UNCHANGED <<compiled, worklist, current_mono_args, lowering, cbuilds, outerRuns,
                   innerRuns, buildLog, buildCalls, nestedRegistered>>
    /\ UNCHANGED engineVars
    /\ UNCHANGED <<monoVars, trackVars, passVars>>

CtxNext ==
    \/ \E id \in DefIds : Compile(id)
    \/ \E id \in DefIds : \E mono \in MonoArgsOf(id) : BuildCompiledDef(id, mono)
    \/ LowerBegin
    \/ LowerEnd
    \/ LowerRaises
    \/ CompileReturns

(***************************************************************************)
(*        Conversion of bound variables under partial monomorphization     *)
(***************************************************************************)
MaxParams == 3

\* The slots of a partial monomorphization: undecided (None), a type argument, and
\* constant arguments holding the int 2, the bool True (1 as a Python int), the
\* float 1.5 (written in tenths) and a bound constant variable.
None == [arg |-> "None"]

ConstArg(kind, value) == [arg |-> "ConstArg", const |-> kind, value |-> value]

Slots == {None, TypeArg("bool"), ConstArg("int", 2), ConstArg("bool", 1),
          ConstArg("float", 15), ConstArg("BoundConstVar", 0)}

\* isinstance(v, int) of a constant value: Python's bool is a subclass of int.
IsPythonInt(slot) == slot.const \in {"int", "bool"}

RECURSIVE SeqsUpTo(_, _)
SeqsUpTo(S, n) ==
    IF n = 0 THEN {<<>>}
    ELSE LET shorter == SeqsUpTo(S, n - 1)
         IN shorter \cup {Append(q, x) : q \in {r \in shorter : Len(r) = n - 1}, x \in S}

MonoInputs == {NoneArgs} \cup (SeqsUpTo(Slots, MaxParams) \ {<<>>})

HugrBounds == {"Copyable", "Linear"}

BoundTypeVars == [idx : 0..(MaxParams - 1), hugr_bound : HugrBounds]

BoundConstVars == [idx : 0..(MaxParams - 1), ty : {"nat", "bool"}]

\* sum(1 for arg in s if arg is None)
RECURSIVE CountNone(_)
CountNone(s) ==
    IF s = <<>> THEN 0
    ELSE (IF Head(s) = None THEN 1 ELSE 0) + CountNone(Tail(s))

IntResult(n) == [tag |-> "int", value |-> n]

Raised(error, message) == [tag |-> error, message |-> message]

compile_variable_idx_mut(idx, mono_args) ==
    IF mono_args[idx + 1] # None
    THEN Raised("AssertionError", "Should not compile monomorphized index")
    ELSE IntResult(CountNone(SubSeq(mono_args, 1, idx + 1)))

\* compile_variable_idx, lines 420-421; Python indexes from 0, mono_args[:idx] are
\* the first idx slots.
compile_variable_idx(idx, mono_args) ==
    IF mono_args[idx + 1] # None
    THEN Raised("AssertionError", "Should not compile monomorphized index")
    ELSE IntResult(CountNone(SubSeq(mono_args, 1, idx)))

\* Type.to_hugr of a concrete type
TyToHugr(ty) == [tag |-> "hugr type", ty |-> ty]

HugrVariable(idx, bound) == [tag |-> "Variable", idx |-> idx, bound |-> bound]

HugrVariableArg(idx) == [tag |-> "VariableArg", idx |-> idx, param |-> "BoundedNatParam"]

HugrBoundedNatArg(n) == [tag |-> "BoundedNatArg", n |-> n]

type_var_to_hugr_mut(var, mono_args) ==
    IF mono_args = NoneArgs THEN HugrVariable(var.idx, var.hugr_bound)
    ELSE LET slot == mono_args[var.idx + 1]
         IN IF slot.arg = "TypeArg" THEN TyToHugr(slot.ty)
            ELSE IF slot = None THEN HugrVariable(var.idx, var.hugr_bound)
            ELSE Raised("InternalGuppyError", "Invalid monomorphization")

\* CompilerContext.type_var_to_hugr, lines 215-231
type_var_to_hugr(var, mono_args) ==
    IF mono_args = NoneArgs THEN HugrVariable(var.idx, var.hugr_bound)
    ELSE LET slot == mono_args[var.idx + 1]
         IN IF slot.arg = "TypeArg" THEN TyToHugr(slot.ty)
            ELSE IF slot = None
                 THEN HugrVariable(compile_variable_idx(var.idx, mono_args).value,
                                   var.hugr_bound)
            ELSE Raised("InternalGuppyError", "Invalid monomorphization")

\* CompilerContext.const_var_to_hugr, lines 239-262
const_var_to_hugr(var, mono_args) ==
    IF var.ty # "nat" THEN Raised("InternalGuppyError", "Tried to convert non-nat const type argument")
    ELSE IF mono_args = NoneArgs THEN HugrVariableArg(var.idx)
    ELSE LET slot == mono_args[var.idx + 1]
         IN IF slot.arg = "ConstArg" /\ IsPythonInt(slot)
            THEN HugrBoundedNatArg(slot.value)
            ELSE IF slot = None
                 THEN HugrVariableArg(compile_variable_idx(var.idx, mono_args).value)
            ELSE Raised("InternalGuppyError", "Invalid monomorphization")

MonoIdle == m_call = <<>> /\ m_out = <<>>

\* Bound variables of the definition being lowered index its parameters.
InRange(idx) == current_mono_args = NoneArgs \/ idx < Len(current_mono_args)

CallCompileVariableIdx(idx) ==
    /\ current_mono_args # NoneArgs
    /\ idx < Len(current_mono_args)
    /\ m_call' = <<"compile_variable_idx", idx>>
    /\ m_out' = compile_variable_idx(idx, current_mono_args)
    /\ UNCHANGED <<engineVars, ctxVars, trackVars, passVars>>

CallTypeVarToHugr(var) ==
    /\ InRange(var.idx)
    /\ m_call' = <<"type_var_to_hugr", var>>
    /\ m_out' = type_var_to_hugr(var, current_mono_args)
    /\ UNCHANGED <<engineVars, ctxVars, trackVars, passVars>>

CallConstVarToHugr(var) ==
    /\ InRange(var.idx)
    /\ m_call' = <<"const_var_to_hugr", var>>
    /\ m_out' = const_var_to_hugr(var, current_mono_args)
    /\ UNCHANGED <<engineVars, ctxVars, trackVars, passVars>>

MonoNext ==
    \/ \E idx \in 0..(MaxParams - 1) : CallCompileVariableIdx(idx)
    \/ \E var \in BoundTypeVars : CallTypeVarToHugr(var)
    \/ \E var \in BoundConstVars : CallConstVarToHugr(var)

(***************************************************************************)
(*                       track_hugr_side_effects                           *)
(***************************************************************************)
MaxInserts == 4

MaxBranchOps == 3

MaxOps == 3

Op(kind, ext, name) == [kind |-> kind, ext |-> ext, name |-> name]

Plain(kind) == Op(kind, "", "")

\* OpDef.qualified_name(), and line 453 for ops.Custom
QualifiedName(ext, name) == IF ext = "" THEN name ELSE ext \o "." \o name

\* The operations of the tket result extension (RESULT_EXTENSION.operations).
ResultExtensionOps == {"result_int", "result_bool"}

\* EXTENSION_OPS_WITH_SIDE_EFFECTS, lines 429-440
EXTENSION_OPS_WITH_SIDE_EFFECTS ==
    {QualifiedName("tket.result", n) : n \in ResultExtensionOps}
        \cup {QualifiedName("prelude", "panic"),
              QualifiedName("prelude", "exit"),
              QualifiedName("tket.debug", "StateResult"),
              QualifiedName("tket.quantum", "QAlloc"),
              QualifiedName("tket.quantum", "QFree"),
              QualifiedName("tket.quantum", "MeasureFree")}

may_have_side_effect_mut(op) ==
    CASE op.kind = "ExtOp" -> QualifiedName(op.ext, op.name) \in EXTENSION_OPS_WITH_SIDE_EFFECTS
      [] op.kind = "Custom" -> QualifiedName(op.ext, op.name) \in EXTENSION_OPS_WITH_SIDE_EFFECTS
      [] OTHER -> TRUE

\* may_have_side_effect, lines 449-464
may_have_side_effect(op) ==
    CASE op.kind = "ExtOp" -> QualifiedName(op.ext, op.name) \in EXTENSION_OPS_WITH_SIDE_EFFECTS
      [] op.kind = "Custom" -> QualifiedName(op.ext, op.name) \in EXTENSION_OPS_WITH_SIDE_EFFECTS
      [] op.kind \in {"Call", "CallIndirect"} -> TRUE
      [] OTHER -> FALSE

\* Parents whose first two children are an Input and an Output node.
DataflowParents == {"FuncDefn", "DFG", "Case", "DataflowBlock", "TailLoop"}

\* Hugr.children(parent): the parent's children in insertion order.
Children(h, parent) ==
    LET ids == {i \in 1..Len(h) : h[i].parent = parent}
        nth[k \in 1..Cardinality(ids)] ==
            CHOOSE i \in ids : Cardinality({j \in ids : j < i}) = k - 1
    IN nth

\* dict.get / dict.__setitem__ of prev_node_with_side_effect
PrevHas(prev, parent) == \E i \in 1..Len(prev) : prev[i][1] = parent

PrevGet(prev, parent) ==
    prev[CHOOSE i \in 1..Len(prev) : prev[i][1] = parent][2]

PrevSet(prev, parent, node) ==
    IF PrevHas(prev, parent)
    THEN [i \in 1..Len(prev) |->
             IF prev[i][1] = parent THEN <<parent, node>> ELSE prev[i]]
    ELSE Append(prev, <<parent, node>>)

\* The tracker's bookkeeping while one add_node call is handled.
Tracker(links, prev, rec) == [links |-> links, prev |-> prev, rec |-> rec]

LinkFrom_mut(prev_node, node, parent, st) ==
    IF prev_node # node
    THEN Tracker(st.links,
                 PrevSet(st.prev, parent, node),
                 Append(st.rec, <<parent, node>>))
    ELSE st

\* handle_side_effect, lines 518-520
LinkFrom(prev_node, node, parent, st) ==
    IF prev_node # node
    THEN Tracker(Append(st.links, <<prev_node, node>>),
                 PrevSet(st.prev, parent, node),
                 Append(st.rec, <<parent, node>>))
    ELSE st

IsBranchContainer_mut(op) == FALSE

\* line 511: `isinstance(hugr[parent].op, ops.Conditional | ops.CFG)`
IsBranchContainer(op) == op.kind \in {"Conditional", "CFG"}

\* handle_side_effect, lines 497-516
RECURSIVE handle_side_effect(_, _, _)
handle_side_effect(node, h, st) ==
    LET parent == h[node].parent
    IN IF PrevHas(st.prev, parent)
       THEN LinkFrom(PrevGet(st.prev, parent), node, parent, st)
       ELSE IF h[parent].op.kind # "FuncDefn"
            THEN LET up == handle_side_effect(parent, h, st)
                 IN IF IsBranchContainer(h[parent].op)
                    THEN up
                    ELSE LinkFrom(Children(h, parent)[1], node, parent, up)
            ELSE LinkFrom(Children(h, parent)[1], node, parent, st)

\* hugr_add_node_with_order, lines 489-492, applied to the node just added
AfterAddNode(node, h, st) ==
    IF may_have_side_effect(h[node].op) THEN handle_side_effect(node, h, st) ELSE st

ExitLinks_mut(prev, h, links) == links

\* lines 526-531: the last side-effecting node of every recorded scope is linked
\* to the scope's Output node, in the dict's order
RECURSIVE ExitLinks(_, _, _)
ExitLinks(prev, h, links) ==
    IF prev = <<>> THEN links
    ELSE ExitLinks(Tail(prev), h,
                   Append(links, <<Head(prev)[2], Children(h, Head(prev)[1])[2]>>))

RestoreOnError_mut == "patched"

\* line 533, in the finally clause
RestoreOnError == "original"

Phase == IF tpc = "tracking" THEN "tracked" ELSE "after"

NodeOf(op, parent) == [op |-> op, parent |-> parent, phase |-> Phase]

\* A module with one function definition whose outer signature has been emitted.
TrackInit ==
    /\ hugr = << [op |-> Plain("Module"), parent |-> 0, phase |-> "before"],
                 [op |-> Plain("FuncDefn"), parent |-> 1, phase |-> "before"],
                 [op |-> Plain("Input"), parent |-> 2, phase |-> "before"],
                 [op |-> Plain("Output"), parent |-> 2, phase |-> "before"] >>
    /\ order_links = <<>>
    /\ prev_node_with_side_effect = <<>>
    /\ add_node = "original"
    /\ tpc = "before"
    /\ recorded = <<>>

Inserted == Cardinality({i \in 1..Len(hugr) : hugr[i].phase # "before"
                                              /\ hugr[i].op.kind \notin {"Input", "Output"}})

\* lines 475-477 and 523: the interval starts
EnterTracking ==
    /\ tpc = "before"
    /\ prev_node_with_side_effect' = <<>>
    /\ add_node' = "patched"
    /\ tpc' = "tracking"
    /\ UNCHANGED <<hugr, order_links, recorded>>
    /\ UNCHANGED <<engineVars, ctxVars, monoVars, passVars>>

\* Hugr.add_node as it is bound at the moment, for the nodes `ops` added one after
\* the other under `parent` (the later ones under the first of them).
AddNodes(new) ==
    /\ hugr' = hugr \o new
    /\ IF add_node = "patched"
       THEN LET RECURSIVE run(_, _)
                run(k, st) ==
                    IF k > Len(new) THEN st
                    ELSE run(k + 1, AfterAddNode(Len(hugr) + k, hugr \o SubSeq(new, 1, k), st))
                st == run(1, Tracker(order_links, prev_node_with_side_effect, recorded))
            IN /\ order_links' = st.links
               /\ prev_node_with_side_effect' = st.prev
               /\ recorded' = st.rec
       ELSE UNCHANGED <<order_links, prev_node_with_side_effect, recorded>>
    /\ UNCHANGED <<add_node, tpc>>
    /\ UNCHANGED <<engineVars, ctxVars, monoVars, passVars>>

\* The lowering adds an operation, a Conditional or a CFG to a dataflow parent.
AddNode(op, parent, bound) ==
    /\ tpc # "before"
    /\ Inserted < bound
    /\ parent \in 1..Len(hugr)
    /\ hugr[parent].op.kind \in DataflowParents
    /\ AddNodes(<<NodeOf(op, parent)>>)

\* The lowering adds a nested dataflow region: the builder adds the region's node
\* and its Input and Output nodes.
AddRegion(kind, parent) ==
    /\ tpc = "tracking"
    /\ Inserted < MaxInserts
    /\ parent \in 1..Len(hugr)
    /\ CASE kind = "Case" -> hugr[parent].op.kind = "Conditional"
         [] kind = "DataflowBlock" -> hugr[parent].op.kind = "CFG"
         [] OTHER -> hugr[parent].op.kind \in DataflowParents
    /\ AddNodes(<<NodeOf(Plain(kind), parent),
                  NodeOf(Plain("Input"), Len(hugr) + 1),
                  NodeOf(Plain("Output"), Len(hugr) + 1)>>)

\* lines 525-533: the lowering returned
ExitTracking ==
    /\ tpc = "tracking"
    /\ order_links' = ExitLinks(prev_node_with_side_effect, hugr, order_links)
    /\ add_node' = RestoreOnError
    /\ tpc' = "exited"
    /\ UNCHANGED <<hugr, prev_node_with_side_effect, recorded>>
    /\ UNCHANGED <<engineVars, ctxVars, monoVars, passVars>>

\* lines 525 and 533: the lowering raised an error
RaiseInTracking ==
    /\ tpc = "tracking"
    /\ add_node' = RestoreOnError
    /\ tpc' = "raised"
    /\ UNCHANGED <<hugr, order_links, prev_node_with_side_effect, recorded>>
    /\ UNCHANGED <<engineVars, ctxVars, monoVars, passVars>>

QAllocOp == Op("ExtOp", "tket.quantum", "QAlloc")

MakeTupleOp == Plain("MakeTuple")

\* The operations of the structural specification: an operation with a side
\* effect and the two containers that are no dataflow parents.
TrackOps == {QAllocOp, Plain("Conditional"), Plain("CFG")}

\* The nested dataflow regions; DFG stands for every region that is neither a
\* FuncDefn nor a child of a Conditional or a CFG (a TailLoop is handled alike).
RegionKinds == {"DFG", "Case", "DataflowBlock"}

\* The operations of the catalogue specification.
CatalogueOps ==
    {Op("ExtOp", "tket.result", n) : n \in ResultExtensionOps}
        \cup {Op("ExtOp", "prelude", "panic"), Op("ExtOp", "prelude", "exit"),
              Op("ExtOp", "tket.debug", "StateResult"),
              QAllocOp, Op("ExtOp", "tket.quantum", "QFree"),
              Op("ExtOp", "tket.quantum", "MeasureFree"),
              Op("ExtOp", "tket.quantum", "H"),
              Op("Custom", "prelude", "panic"), Op("Custom", "tket.quantum", "Rz"),
              Plain("Call"), Plain("CallIndirect"), MakeTupleOp}

\* The lowering adds an operation of the catalogue to the function body.
AddOp(op) == tpc = "tracking" /\ AddNode(op, 2, MaxOps)

\* Lowering has added a Conditional with two Cases to the function body, and no
\* node with a side effect yet.
BranchesInit ==
    /\ hugr = << [op |-> Plain("Module"), parent |-> 0, phase |-> "before"],
                 [op |-> Plain("FuncDefn"), parent |-> 1, phase |-> "before"],
                 [op |-> Plain("Input"), parent |-> 2, phase |-> "before"],
                 [op |-> Plain("Output"), parent |-> 2, phase |-> "before"],
                 [op |-> Plain("Conditional"), parent |-> 2, phase |-> "tracked"],
                 [op |-> Plain("Case"), parent |-> 5, phase |-> "tracked"],
                 [op |-> Plain("Input"), parent |-> 6, phase |-> "tracked"],
                 [op |-> Plain("Output"), parent |-> 6, phase |-> "tracked"],
                 [op |-> Plain("Case"), parent |-> 5, phase |-> "tracked"],
                 [op |-> Plain("Input"), parent |-> 9, phase |-> "tracked"],
                 [op |-> Plain("Output"), parent |-> 9, phase |-> "tracked"] >>
    /\ order_links = <<>>
    /\ prev_node_with_side_effect = <<>>
    /\ add_node = "patched"
    /\ tpc = "tracking"
    /\ recorded = <<>>

\* The operations added to the function body and to the two Cases.
BranchOps == {QAllocOp, MakeTupleOp}

\* The Conditional and its two Cases, and MaxBranchOps operations.
BranchInserts == 3 + MaxBranchOps

BranchesNext ==
    \/ \E op \in BranchOps : \E parent \in 1..Len(hugr) : AddNode(op, parent, BranchInserts)
    \/ ExitTracking
    \/ RaiseInTracking

TrackNext ==
    \/ EnterTracking
    \/ \E op \in TrackOps : \E parent \in 1..Len(hugr) : AddNode(op, parent, MaxInserts)
    \/ \E kind \in RegionKinds : \E parent \in 1..Len(hugr) : AddRegion(kind, parent)
    \/ ExitTracking
    \/ RaiseInTracking

OpsNext ==
    \/ EnterTracking
    \/ \E op \in CatalogueOps : AddOp(op)
    \/ ExitTracking

(***************************************************************************)
(*                            insert_drops                                 *)
(***************************************************************************)
MaxDropPorts == 2

MaxDropRuns == 2

\* qualified_name(type_def), lines 536-542
qualified_name(extension, name) ==
    IF extension # "" THEN extension \o "." \o name ELSE name

\* AFFINE_EXTENSION_TYS, lines 547-550
AFFINE_EXTENSION_TYS ==
    {qualified_name("collections.array", "array"),
     qualified_name("collections.borrow_arr", "borrow_array")}

\* The Hugr types requires_drop distinguishes.
ExtType(extension, name, args) ==
    [k |-> "ExtType", extension |-> extension, name |-> name, args |-> args]

Opaque(id, extension, args) ==
    [k |-> "Opaque", extension |-> extension, name |-> id, args |-> args]

Sum(rows) == [k |-> "Sum", rows |-> rows]

TypeVariable(bound) == [k |-> "Variable", bound |-> bound]

HugrFunctionType(inputs) == [k |-> "FunctionType", inputs |-> inputs]

TypeTypeArg(ty) == [arg |-> "TypeTypeArg", ty |-> ty]

NatArg(n) == [arg |-> "BoundedNatArg", n |-> n]

requires_drop_mut(ty) ==
    CASE ty.k \in {"ExtType", "Opaque"} ->
            qualified_name(ty.extension, ty.name) \in AFFINE_EXTENSION_TYS
      [] ty.k = "Variable" -> ty.bound = "Linear"
      [] OTHER -> FALSE

\* requires_drop, lines 558-577 (ht.Alias is never emitted and not modelled)
RECURSIVE requires_drop(_)
requires_drop(ty) ==
    CASE ty.k \in {"ExtType", "Opaque"} ->
            \/ qualified_name(ty.extension, ty.name) \in AFFINE_EXTENSION_TYS
            \/ \E i \in 1..Len(ty.args) :
                  ty.args[i].arg = "TypeTypeArg" /\ requires_drop(ty.args[i].ty)
      [] ty.k = "Sum" ->
            \E r \in 1..Len(ty.rows) : \E j \in 1..Len(ty.rows[r]) :
                requires_drop(ty.rows[r][j])
      [] ty.k = "Variable" -> ty.bound = "Linear"
      [] ty.k = "FunctionType" -> FALSE
      [] OTHER -> FALSE

\* An out port: hugr.port_kind(port) and hugr.linked_ports(port)
OutPort(kind, ty, links) == [kind |-> kind, ty |-> ty, links |-> links]

DropNode(op, parent, outs) == [op |-> op, parent |-> parent, outs |-> outs]

\* The condition of lines 603-607
ShouldDrop(port) ==
    /\ port.links = {}
    /\ port.kind = "Value"
    /\ requires_drop(port.ty)

splice_drop_mut(g, n, i) ==
    Append(g, DropNode("drop", g[n].parent, <<>>))

\* lines 608-609: a drop node is added under the node's parent and the port is
\* linked to its input
splice_drop(g, n, i) ==
    Append([g EXCEPT ![n].outs[i].links = @ \cup {Len(g) + 1}],
           DropNode("drop", g[n].parent, <<>>))

\* lines 598-609: the ports of one node, from port i on
RECURSIVE VisitPorts(_, _, _)
VisitPorts(g, n, i) ==
    IF g[n].op = "FuncDefn" \/ i > Len(g[n].outs) THEN g
    ELSE IF ShouldDrop(g[n].outs[i]) THEN VisitPorts(splice_drop(g, n, i), n, i + 1)
    ELSE VisitPorts(g, n, i + 1)

\* insert_drops, lines 592-609: `for node in hugr`, from node n on; the nodes the
\* pass adds are visited as well
RECURSIVE insert_drops(_, _)
insert_drops(g, n) ==
    IF n > Len(g) THEN g ELSE insert_drops(VisitPorts(g, n, 1), n + 1)

QubitTy == ExtType("prelude", "qubit", <<>>)

ArrayTy == ExtType("collections.array", "array", <<NatArg(2), TypeTypeArg(QubitTy)>>)

BorrowArrayTy ==
    ExtType("collections.borrow_arr", "borrow_array", <<NatArg(2), TypeTypeArg(QubitTy)>>)

\* The types of the unlinked ports of the graphs the pass is run over: plain and
\* affine extension types, an opaque array, composites with and without an array
\* inside, type variables of both bounds, a function type over arrays.
DropTypes ==
    {QubitTy, ArrayTy, BorrowArrayTy,
     Opaque("array", "collections.array", <<NatArg(2), TypeTypeArg(QubitTy)>>),
     ExtType("collections.list", "List", <<TypeTypeArg(ArrayTy)>>),
     Sum(<<<<QubitTy>>, <<QubitTy, BorrowArrayTy>>>>),
     Sum(<<<<>>, <<QubitTy>>>>),
     TypeVariable("Linear"), TypeVariable("Copyable"),
     HugrFunctionType(<<ArrayTy>>)}

\* The out ports a node of the compiled graph can have: unlinked value ports of
\* every type, value ports with a consumer, a constant port of array type.
PortChoices ==
    {OutPort("Value", ty, {}) : ty \in DropTypes}
        \cup {OutPort("Value", ty, {2}) : ty \in {QubitTy, ArrayTy}}
        \cup {OutPort("Const", ArrayTy, {})}

\* A module with one function definition, its Input and Output nodes.
DropGraphInit ==
    << DropNode("Module", 0, <<>>),
       DropNode("FuncDefn", 1, <<OutPort("Function", HugrFunctionType(<<ArrayTy>>), {})>>),
       DropNode("Output", 2, <<>>),
       DropNode("Input", 2, <<>>) >>

DropInit ==
    /\ d_nodes = DropGraphInit
    /\ d_runs = 0
    /\ d_before = <<>>
    /\ d_first = <<>>

PortCount(g) ==
    LET RECURSIVE count(_)
        count(n) == IF n = 0 THEN 0 ELSE Len(g[n].outs) + count(n - 1)
    IN count(Len(g))

\* The lowering adds an operation node to the function body.
DropAddNode ==
    /\ d_runs = 0
    /\ PortCount(d_nodes) < MaxDropPorts + 1
    /\ d_nodes[Len(d_nodes)].op = "Output" \/ d_nodes[Len(d_nodes)].outs # <<>>
    /\ d_nodes' = Append(d_nodes, DropNode("Op", 2, <<>>))
    /\ UNCHANGED <<d_runs, d_before, d_first>>
    /\ UNCHANGED <<engineVars, ctxVars, monoVars, trackVars, dfVars, protoVars, unifyVars, recVars, topVars, coreVars, enumVars>>

\* The node added last gets one more out port.
DropAddPort(port) ==
    /\ d_runs = 0
    /\ PortCount(d_nodes) < MaxDropPorts + 1
    /\ d_nodes[Len(d_nodes)].op \in {"Input", "Op"}
    /\ d_nodes' = [d_nodes EXCEPT ![Len(d_nodes)].outs = Append(@, port)]
    /\ UNCHANGED <<d_runs, d_before, d_first>>
    /\ UNCHANGED <<engineVars, ctxVars, monoVars, trackVars, dfVars, protoVars, unifyVars, recVars, topVars, coreVars, enumVars>>

\* insert_drops(hugr), the whole pass
InsertDrops ==
    /\ d_runs < MaxDropRuns
    /\ d_nodes' = insert_drops(d_nodes, 1)
    /\ d_runs' = d_runs + 1
    /\ d_before' = IF d_runs = 0 THEN d_nodes ELSE d_before
    /\ d_first' = IF d_runs = 0 THEN d_nodes' ELSE d_first
    /\ UNCHANGED <<engineVars, ctxVars, monoVars, trackVars, dfVars, protoVars, unifyVars, recVars, topVars, coreVars, enumVars>>

DropNext ==
    \/ DropAddNode
    \/ \E port \in PortChoices : DropAddPort(port)
    \/ InsertDrops

(***************************************************************************)
(*                             DFContainer                                 *)
(***************************************************************************)
MaxDfCalls == 4

\* Guppy types of places: leaves (linear or not), tuples and structs.
LeafType(name, linear) == [k |-> "leaf", name |-> name, linear |-> linear]

TupleType(element_types) == [k |-> "tuple", element_types |-> element_types]

StructField(name, ty) == [name |-> name, ty |-> ty]

StructType(fields) == [k |-> "struct", fields |-> fields]

\* Type.linear: a composite is linear when one of its parts is.
RECURSIVE IsLinear(_)
IsLinear(ty) ==
    CASE ty.k = "leaf" -> ty.linear
      [] ty.k = "tuple" -> \E i \in 1..Len(ty.element_types) : IsLinear(ty.element_types[i])
      [] ty.k = "struct" -> \E i \in 1..Len(ty.fields) : IsLinear(ty.fields[i].ty)

\* A place: a variable, or a chain of field / element accesses below one.  The
\* record is the place's id as well (Variable.Id, FieldAccess.Id, TupleAccess.Id).
Place(name, path) == [name |-> name, path |-> path]

\* The local variables of the function being lowered: x is a struct holding an
\* int and a tuple of a qubit; %ret0 is a return-value variable, a tuple.
VarType(name) ==
    IF name = "x"
    THEN StructType(<<StructField("a", LeafType("int", FALSE)),
                      StructField("b", TupleType(<<LeafType("qubit", TRUE)>>))>>)
    ELSE TupleType(<<LeafType("int", FALSE), LeafType("qubit", TRUE)>>)

\* The name of the i-th part of a composite type: the field name, or the index of
\* the tuple element (counted from 0).
PartName(ty, i) ==
    IF ty.k = "struct" THEN ty.fields[i].name
    ELSE CASE i = 1 -> "0" [] i = 2 -> "1" [] OTHER -> "2"

PartType(ty, i) == IF ty.k = "struct" THEN ty.fields[i].ty ELSE ty.element_types[i]

PartCount(ty) ==
    CASE ty.k = "struct" -> Len(ty.fields)
      [] ty.k = "tuple" -> Len(ty.element_types)
      [] OTHER -> 0

\* place.ty
RECURSIVE TypeBelow(_, _)
TypeBelow(ty, path) ==
    IF path = <<>> THEN ty
    ELSE TypeBelow(PartType(ty, CHOOSE i \in 1..PartCount(ty) : PartName(ty, i) = Head(path)),
                   Tail(path))

PlaceType(place) == TypeBelow(VarType(place.name), place.path)

\* lines 304-311: FieldAccess(place, field, None) / TupleAccess(place, elem, idx, None)
ChildPlaces(place) ==
    [i \in 1..PartCount(PlaceType(place)) |->
        Place(place.name, Append(place.path, PartName(PlaceType(place), i)))]

\* is_return_var: the name starts with "%ret"; of the names of the model only
\* "%ret0" does
is_return_var(x) == x = "%ret0"

\* `isinstance(place, Variable) and is_return_var(place.name)`, line 326
IsReturnPlace(place) == place.path = <<>> /\ is_return_var(place.name)

IsComposite(place) == PlaceType(place).k \in {"struct", "tuple"}

Wire(node, port) == [node |-> node, port |-> port]

\* builder.add_op(op, *inputs): the operation is appended to the graph
BuilderOp(op, inputs) == [op |-> op, inputs |-> inputs]

\* The state a call works on: the container's locals and the builder's graph.
DfState(locals, ops) == [locals |-> locals, ops |-> ops]

WireResult(wire) == [tag |-> "wire", wire |-> wire]

DfError(place) == [tag |-> "InternalGuppyError", place |-> place]

Looked(st, result) == [st |-> st, result |-> result]

MapPut(locals, id, wire) == (id :> wire) @@ locals

ForgetPlace_mut(locals, id) == locals

\* self.locals.pop(place.id, None), lines 319, 335 and 344
ForgetPlace(locals, id) == [p \in (DOMAIN locals) \ {id} |-> locals[p]]

HasWire_mut(locals, id) == FALSE

\* `place.id in self.locals`, line 299
HasWire(locals, id) == id \in DOMAIN locals

\* lines 317-319: the linear children are removed from the locals
RECURSIVE PopLinear(_, _, _)
PopLinear(locals, children, k) ==
    IF k > Len(children) THEN locals
    ELSE PopLinear(IF IsLinear(PlaceType(children[k]))
                   THEN ForgetPlace(locals, children[k]) ELSE locals,
                   children, k + 1)

\* DFContainer.__getitem__, lines 299-321; line 315 looks the children up one
\* after the other, and an error of one of them ends the lookup
RECURSIVE getitem(_, _)
getitem(place, st) ==
    IF HasWire(st.locals, place) THEN Looked(st, WireResult(st.locals[place]))
    ELSE IF ~IsComposite(place) THEN Looked(st, DfError(place))
    ELSE LET children == ChildPlaces(place)
             RECURSIVE lookup(_, _, _)
             lookup(k, s, wires) ==
                 IF k > Len(children) THEN Looked(s, WireResult(wires))
                 ELSE LET r == getitem(children[k], s)
                      IN IF r.result.tag = "wire"
                         THEN lookup(k + 1, r.st, Append(wires, r.result.wire))
                         ELSE r
             got == lookup(1, st, <<>>)
         IN IF got.result.tag # "wire" THEN got
            ELSE LET ops == Append(got.st.ops, BuilderOp("MakeTuple", got.result.wire))
                     wire == Wire(Len(ops), 0)
                 IN Looked(DfState(MapPut(PopLinear(got.st.locals, children, 1), place, wire),
                                   ops),
                           WireResult(wire))

\* DFContainer.__setitem__, lines 326-346
RECURSIVE setitem(_, _, _)
setitem(place, port, st) ==
    IF IsComposite(place) /\ ~IsReturnPlace(place)
    THEN LET children == ChildPlaces(place)
             ops == Append(st.ops, BuilderOp("UnpackTuple", <<port>>))
             RECURSIVE assign(_, _)
             assign(k, s) ==
                 IF k > Len(children) THEN s
                 ELSE assign(k + 1, setitem(children[k], Wire(Len(ops), k - 1), s))
             done == assign(1, DfState(st.locals, ops))
         IN DfState(ForgetPlace(done.locals, place), done.ops)
    ELSE DfState(MapPut(st.locals, place, port), st.ops)

CopyLocals_mut(maps, idx) == [maps |-> maps, idx |-> idx]

\* DFContainer.__copy__, line 354: `self.locals.copy()` is a new dict
CopyLocals(maps, idx) == [maps |-> Append(maps, maps[idx]), idx |-> Len(maps) + 1]

NoPlace == Place("", <<>>)

NoWire == Wire(0, 0)

LastCall(call, c, place, wire, before, result) ==
    [call |-> call, c |-> c, place |-> place, wire |-> wire, before |-> before,
     result |-> result]

\* A container with no locals, as DFContainer.__init__ makes it (lines 286-290).
DfInit ==
    /\ df_maps = <<EmptyMap>>
    /\ df_ref = <<1>>
    /\ df_ops = <<>>
    /\ df_calls = 0
    /\ df_last = LastCall("none", 0, NoPlace, NoWire, EmptyMap, [tag |-> "none"])

\* The places the lowering assigns and looks up.
DfPlaces ==
    {Place("x", <<>>), Place("x", <<"a">>), Place("x", <<"b">>), Place("x", <<"b", "0">>),
     Place("%ret0", <<>>), Place("%ret0", <<"1">>)}

\* dfg[place] = port, on container c; the port is a wire the lowering just made.
DfSet(c, place) ==
    /\ df_calls < MaxDfCalls
    /\ c \in 1..Len(df_ref)
    /\ LET port == Wire(0, df_calls + 1)
           st == setitem(place, port, DfState(df_maps[df_ref[c]], df_ops))
       IN /\ df_maps' = [df_maps EXCEPT ![df_ref[c]] = st.locals]
          /\ df_ops' = st.ops
          /\ df_last' = LastCall("set", c, place, port, df_maps[df_ref[c]], [tag |-> "done"])
    /\ df_calls' = df_calls + 1
    /\ UNCHANGED df_ref
    /\ UNCHANGED <<engineVars, ctxVars, monoVars, trackVars, dropVars, protoVars, unifyVars, recVars, topVars, coreVars, enumVars>>

\* dfg[place], on container c
DfGet(c, place) ==
    /\ df_calls < MaxDfCalls
    /\ c \in 1..Len(df_ref)
    /\ LET got == getitem(place, DfState(df_maps[df_ref[c]], df_ops))
       IN /\ df_maps' = [df_maps EXCEPT ![df_ref[c]] = got.st.locals]
          /\ df_ops' = got.st.ops
          /\ df_last' = LastCall("get", c, place, NoWire, df_maps[df_ref[c]], got.result)
    /\ df_calls' = df_calls + 1
    /\ UNCHANGED df_ref
    /\ UNCHANGED <<engineVars, ctxVars, monoVars, trackVars, dropVars, protoVars, unifyVars, recVars, topVars, coreVars, enumVars>>

\* copy(dfg), for a diverging branch: builder and ctx are shared, the locals are
\* copied
DfCopy ==
    /\ df_calls < MaxDfCalls
    /\ Len(df_ref) = 1
    /\ LET copied == CopyLocals(df_maps, df_ref[1])
       IN /\ df_maps' = copied.maps
          /\ df_ref' = Append(df_ref, copied.idx)
    /\ df_last' = LastCall("copy", 1, NoPlace, NoWire, df_maps[df_ref[1]], [tag |-> "done"])
    /\ df_calls' = df_calls + 1
    /\ UNCHANGED df_ops
    /\ UNCHANGED <<engineVars, ctxVars, monoVars, trackVars, dropVars, protoVars, unifyVars, recVars, topVars, coreVars, enumVars>>

DfNext ==
    \/ \E c \in {1, 2} : \E place \in DfPlaces : DfSet(c, place)
    \/ \E c \in {1, 2} : \E place \in DfPlaces : DfGet(c, place)
    \/ DfCopy

(***************************************************************************)
(*                           Protocol checker                              *)
(***************************************************************************)
MaxAssumptions == 2

\* Types and type arguments: a concrete type, an unsolved (existential) variable,
\* a bound variable, and inside a signature that is still quantified, a
\* reference to one of its parameters.
ConcreteTy(n) == [k |-> "con", n |-> n]

ExistentialTypeVar(n) == [k |-> "var", n |-> n]

BoundTypeVar(n) == [k |-> "bound", n |-> n]

ParamRef(n) == [k |-> "param", n |-> n]

\* Argument.unsolved_vars
unsolved_vars(arg) == IF arg.k = "var" THEN {arg.n} ELSE {}

\* unify returns a substitution, or None
Unified(subst) == [ok |-> TRUE, subst |-> subst, raised |-> ""]

NoUnifier == [ok |-> FALSE, subst |-> EmptyMap, raised |-> ""]

\* zip(xs, ys, strict=True) raises ValueError when one list ends before the other
ZipValueError == [ok |-> FALSE, subst |-> EmptyMap, raised |-> "ValueError"]

\* unify(a, b, subst): an unsolved variable on either side extends the
\* substitution, or is unified again through the binding it has; two
\* constructors must be the same
RECURSIVE unify(_, _, _)
unify(x, y, subst) ==
    IF x.k = "var" /\ y.k = "var" /\ x.n = y.n THEN Unified(subst)
    ELSE IF x.k = "var"
    THEN IF x.n \in DOMAIN subst THEN unify(subst[x.n], y, subst)
         ELSE Unified((x.n :> y) @@ subst)
    ELSE IF y.k = "var"
    THEN IF y.n \in DOMAIN subst THEN unify(x, subst[y.n], subst)
         ELSE Unified((y.n :> x) @@ subst)
    ELSE IF x = y THEN Unified(subst) ELSE NoUnifier

\* Argument sequences are unified pairwise, from left to right.
RECURSIVE UnifyFrom(_, _, _, _)
UnifyFrom(xs, ys, i, subst) ==
    IF i > Len(xs) THEN Unified(subst)
    ELSE LET u == unify(xs[i], ys[i], subst)
         IN IF u.ok THEN UnifyFrom(xs, ys, i + 1, u.subst) ELSE NoUnifier

\* _unify_args, lines 70-78
RECURSIVE ZipUnify(_, _, _, _)
ZipUnify(xs, ys, i, subst) ==
    IF i > Len(xs) \/ i > Len(ys)
    THEN IF Len(xs) = Len(ys) THEN Unified(subst) ELSE ZipValueError
    ELSE LET u == unify(xs[i], ys[i], subst)
         IN IF u.ok THEN ZipUnify(xs, ys, i + 1, u.subst) ELSE NoUnifier

unify_args(xs, ys, subst) == ZipUnify(xs, ys, 1, subst)

\* unify on two function types: inputs and output pairwise, equal lengths required
unify_sig(xs, ys, subst) ==
    IF Len(xs) # Len(ys) THEN NoUnifier ELSE UnifyFrom(xs, ys, 1, subst)

\* Type.substitute with a substitution of unsolved variables
substitute(ty, subst) == IF ty.k = "var" /\ ty.n \in DOMAIN subst THEN subst[ty.n] ELSE ty

ProtocolInst(def_id, type_args) == [def_id |-> def_id, type_args |-> type_args]

\* Type.substitute reaching the protocols a bound type variable implements
substitute_implements(implements, subst) ==
    [i \in DOMAIN implements |->
        ProtocolInst(implements[i].def_id,
                     [j \in DOMAIN implements[i].type_args |->
                         substitute(implements[i].type_args[j], subst)])]

\* A signature: the types of the inputs, self first, then the output type.
FunctionType(params, sig) == [params |-> params, sig |-> sig]

\* FunctionType.unquantified(): each generic parameter becomes a fresh unsolved
\* variable; returns the signature and the variables
unquantified(fty) ==
    [sig |-> [i \in DOMAIN fty.sig |->
                 IF fty.sig[i].k = "param" THEN ExistentialTypeVar(fty.sig[i].n)
                 ELSE fty.sig[i]],
     vars |-> fty.params]

\* _instantiate_self, lines 81-99, followed by line 146: the self parameter
\* becomes the implementing type, the protocol's parameter becomes the argument of
\* the requested instantiation
instantiate_self(proto_func, proto_inst, impl_ty) ==
    [i \in DOMAIN proto_func.sig |->
        IF proto_func.sig[i].k = "param"
        THEN IF proto_func.sig[i].n = "Self" THEN impl_ty ELSE proto_inst.type_args[1]
        ELSE proto_func.sig[i]]

\* _substitute_proto_inst_args, lines 101-103
substitute_proto_inst_args(proto, subst) == proto

Member(name, ty) == [name |-> name, ty |-> ty]

\* A function definition found by ENGINE.get_instance_func, or None
InstanceFunc(id, ty) == [id |-> id, ty |-> ty]

NoFunc == InstanceFunc("None", FunctionType(<<>>, <<>>))

\* ENGINE.get_instance_func(ty, name) over the methods of the implementing type
get_instance_func(funcs, name) == IF name \in DOMAIN funcs THEN funcs[name] ELSE NoFunc

ProtocolMemberMissing_mut(impl_name, proto_name, member_name) ==
    [title |-> "Protocol member implementation missing", impl_name |-> impl_name,
     proto_name |-> proto_name, member_name |-> proto_name]

\* ProtocolMemberMissing, lines 58-67
ProtocolMemberMissing(impl_name, proto_name, member_name) ==
    [title |-> "Protocol member implementation missing", impl_name |-> impl_name,
     proto_name |-> proto_name, member_name |-> member_name]

\* The ways check_protocol ends: it returns a proof and a substitution, or raises;
\* `at` is the member the loop was at when it raised.
Returned(proof, subst) == [tag |-> "return", proof |-> proof, subst |-> subst]

RaisedGuppyError(err, at) == [tag |-> "raise", exc |-> "GuppyError", err |-> err, at |-> at]

RaisedException(msg, at) == [tag |-> "raise", exc |-> "Exception", msg |-> msg, at |-> at]

RaisedAssertionError == [tag |-> "raise", exc |-> "AssertionError", at |-> ""]

\* the ValueError of _unify_args leaves check_protocol
RaisedValueError == [tag |-> "raise", exc |-> "ValueError", at |-> ""]

\* ImplProofBase.__post_init__, lines 27-29
ProofBaseOk(proto) == \A i \in DOMAIN proto.type_args : unsolved_vars(proto.type_args[i]) = {}

\* ConcreteImplProof(proto, ty, member_impls), lines 32-43; the assert runs when
\* the interpreter executes assert statements
ConcreteImplProof(proto, ty, member_impls, debug) ==
    IF debug /\ ~ProofBaseOk(proto) THEN RaisedAssertionError
    ELSE [tag |-> "ConcreteImplProof", proto |-> proto, ty |-> ty,
          member_impls |-> member_impls]

\* AssumptionImplProof(proto, ty), lines 46-52
AssumptionImplProof(proto, ty, implements, debug) ==
    IF debug /\ ~(ProofBaseOk(proto) /\ proto \in Range(implements)) THEN RaisedAssertionError
    ELSE [tag |-> "AssumptionImplProof", proto |-> proto, ty |-> ty,
          implements |-> implements]

\* lines 113-118: the assumptions on the requested protocol whose arguments unify
RECURSIVE Candidates(_, _, _)
Candidates(implements, protocol, i) ==
    IF i > Len(implements) THEN <<>>
    ELSE LET impl == implements[i]
             u == IF impl.def_id = protocol.def_id
                  THEN unify_args(protocol.type_args, impl.type_args, EmptyMap)
                  ELSE NoUnifier
         IN (IF u.ok THEN <<[impl |-> impl, subst |-> u.subst]>> ELSE <<>>)
            \o Candidates(implements, protocol, i + 1)

IsSingle_mut(candidates) == candidates # <<>>

\* line 119
IsSingle(candidates) == Len(candidates) = 1

ImplInst_mut(subst, impl_vars) == <<>>

\* line 152: `[subst[x] for x in impl_vars]`
ImplInst(subst, impl_vars) == [i \in DOMAIN impl_vars |-> subst[impl_vars[i]]]

ProtocolVars(protocol) ==
    UNION {unsolved_vars(protocol.type_args[i]) : i \in DOMAIN protocol.type_args}

\* line 156
Residual(subst, protocol) == [x \in ProtocolVars(protocol) |-> subst[x]]

\* lines 129-157: the loop over the declared members, from member i on, and what
\* follows it
RECURSIVE CheckMembers(_, _, _, _)
CheckMembers(inp, i, subst, member_impls) ==
    IF i > Len(inp.members)
    THEN IF \E x \in ProtocolVars(inp.protocol) : x \notin DOMAIN subst
         THEN RaisedException("Couldn't figure out variables in protocol", "")
         ELSE LET proof == ConcreteImplProof(inp.protocol, inp.ty, member_impls, inp.debug)
              IN IF proof.tag = "raise" THEN proof
                 ELSE Returned(proof, Residual(subst, inp.protocol))
    ELSE LET name == inp.members[i].name
             proto_sig == instantiate_self(inp.members[i].ty, inp.protocol, inp.ty)
             func == get_instance_func(inp.funcs, name)
         IN IF func = NoFunc
            THEN RaisedGuppyError(ProtocolMemberMissing(inp.ty.n, inp.proto_name, name), name)
            ELSE LET impl == unquantified(func.ty)
                     u == unify_sig(proto_sig, impl.sig, subst)
                 IN IF ~u.ok THEN RaisedException("Signature Mismatch", name)
                    ELSE IF \E j \in DOMAIN impl.vars : impl.vars[j] \notin DOMAIN u.subst
                    THEN RaisedException("Unresolved variables in implementation", name)
                    ELSE CheckMembers(inp, i + 1, u.subst,
                                      (name :> [id |-> func.id,
                                                inst |-> ImplInst(u.subst, impl.vars)])
                                      @@ member_impls)

\* line 116 raises for an assumption on the requested protocol
CandidatesRaise(implements, protocol) ==
    \E i \in DOMAIN implements :
        /\ implements[i].def_id = protocol.def_id
        /\ unify_args(protocol.type_args, implements[i].type_args, EmptyMap) = ZipValueError

\* check_protocol, lines 106-157
check_protocol(inp) ==
    IF inp.ty.k = "bound" /\ CandidatesRaise(inp.implements, inp.protocol)
    THEN RaisedValueError
    ELSE IF inp.ty.k = "bound"
    THEN LET candidates == Candidates(inp.implements, inp.protocol, 1)
         IN IF ~IsSingle(candidates) THEN RaisedException("Zero or more than one", "")
            ELSE LET subst == candidates[1].subst
                     proof == AssumptionImplProof(
                                  substitute_proto_inst_args(inp.protocol, subst),
                                  substitute(inp.ty, subst),
                                  substitute_implements(inp.implements, subst), inp.debug)
                 IN IF proof.tag = "raise" THEN proof ELSE Returned(proof, subst)
    ELSE CheckMembers(inp, 1, EmptyMap, EmptyMap)

\* The call: the type, the assumptions it declares when it is a bound variable,
\* the requested instantiation, the checked protocol definition's name and
\* members, the methods of the type, and whether asserts are executed.
ProtoCall(ty, implements, protocol, proto_name, members, funcs, debug) ==
    [ty |-> ty, implements |-> implements, protocol |-> protocol,
     proto_name |-> proto_name, members |-> members, funcs |-> funcs, debug |-> debug]

IntTy == ConcreteTy("int")

StrTy == ConcreteTy("str")

\* The requested instantiations of MyProto[T].
RequestedInsts ==
    {ProtocolInst("MyProto.id", <<a>>) : a \in {IntTy, StrTy, ExistentialTypeVar("?v")}}

\* The protocol instantiations a bound type variable can be assumed to implement;
\* like the type and the requested protocol, they may hold an unsolved variable.
Assumed ==
    {ProtocolInst("MyProto.id", <<IntTy>>), ProtocolInst("MyProto.id", <<StrTy>>),
     ProtocolInst("MyProto.id", <<BoundTypeVar("T")>>),
     ProtocolInst("MyProto.id", <<ExistentialTypeVar("?w")>>),
     ProtocolInst("Other.id", <<IntTy>>)}

\* class MyProto[T]: def foo(self, x: T) -> T; def bar(self) -> int
FooMember == Member("foo", FunctionType(<<>>, <<ParamRef("Self"), ParamRef("T"), ParamRef("T")>>))

BarMember == Member("bar", FunctionType(<<>>, <<ParamRef("Self"), IntTy>>))

MemberLists == {<<>>, <<FooMember>>, <<FooMember, BarMember>>}

MyType == ConcreteTy("MyType")

\* The ways MyType can define foo and bar (or not define them).
FooFuncs ==
    {InstanceFunc("MyType.foo", FunctionType(<<>>, <<MyType, IntTy, IntTy>>)),
     InstanceFunc("MyType.foo", FunctionType(<<>>, <<MyType, StrTy, IntTy>>)),
     InstanceFunc("MyType.foo", FunctionType(<<"A">>, <<MyType, ParamRef("A"), ParamRef("A")>>)),
     InstanceFunc("MyType.foo", FunctionType(<<"A">>, <<MyType, IntTy, IntTy>>))}

BarFuncs ==
    {InstanceFunc("MyType.bar", FunctionType(<<>>, <<MyType, IntTy>>)),
     InstanceFunc("MyType.bar", FunctionType(<<>>, <<MyType, StrTy>>)),
     InstanceFunc("MyType.bar", FunctionType(<<"B">>, <<MyType, ParamRef("B")>>))}

FuncTables ==
    {EmptyMap} \cup {("foo" :> f) : f \in FooFuncs} \cup {("bar" :> b) : b \in BarFuncs}
    \cup {("foo" :> f) @@ ("bar" :> b) : f \in FooFuncs, b \in BarFuncs}

ProtoInputs ==
    {ProtoCall(BoundTypeVar("M"), implements, protocol, "MyProto", <<FooMember>>, EmptyMap, debug) :
        implements \in SeqsUpTo(Assumed, MaxAssumptions), protocol \in RequestedInsts,
        debug \in BOOLEAN}
    \cup
    {ProtoCall(MyType, <<>>, protocol, "MyProto", members, funcs, debug) :
        protocol \in RequestedInsts, members \in MemberLists, funcs \in FuncTables,
        debug \in BOOLEAN}

NotCalled == [tag |-> "none"]

\* No call of check_protocol is under way.
ProtoIdle ==
    /\ p_in = ProtoCall(MyType, <<>>, ProtocolInst("MyProto.id", <<IntTy>>), "MyProto", <<>>,
                        EmptyMap, TRUE)
    /\ p_out = NotCalled

\* check_protocol(ty, protocol) runs to its end.
CheckProtocol ==
    /\ p_out = NotCalled
    /\ p_out' = check_protocol(p_in)
    /\ UNCHANGED p_in
    /\ UNCHANGED <<engineVars, ctxVars, monoVars, trackVars, dropVars, dfVars, unifyVars, recVars, topVars, coreVars, enumVars>>

ProtoNext == CheckProtocol

(***************************************************************************)
(*                        _unify_args on its own                           *)
(***************************************************************************)
MaxArgs == 2

UnifyTerms == {IntTy, StrTy, ExistentialTypeVar("?v")}

UnifyInputs ==
    {[xs |-> xs, ys |-> ys] : xs \in SeqsUpTo(UnifyTerms, MaxArgs),
                              ys \in SeqsUpTo(UnifyTerms, MaxArgs)}

UnifyIdle == u_in = [xs |-> <<>>, ys |-> <<>>] /\ u_out = NotCalled

\* _unify_args(xs, ys, {}) runs to its end.
CallUnifyArgs ==
    /\ u_out = NotCalled
    /\ u_out' = [tag |-> "done", result |-> unify_args(u_in.xs, u_in.ys, EmptyMap)]
    /\ UNCHANGED u_in
    /\ UNCHANGED <<engineVars, ctxVars, monoVars, trackVars, dropVars, dfVars, protoVars, recVars, topVars, coreVars, enumVars>>

UnifyNext == CallUnifyArgs

(***************************************************************************)
(*              check_not_recursive on structs and enums                   *)
(***************************************************************************)
MaxRefs == 3

\* The type definitions of the module, and what a field's type annotation can
\* name: one of them, a builtin type, or a name that does not resolve.
TypeDefs == {"A", "B", "C"}

FieldRefs == TypeDefs \cup {"int", "Unknown"}

CheckOk == [tag |-> "ok"]

\* GuppyError(UnsupportedError(loc, things))
UnsupportedError(things) ==
    [tag |-> "raise", exc |-> "GuppyError", err |-> "UnsupportedError", things |-> things]

\* the user error of a type annotation that does not resolve
UnresolvedError == [tag |-> "raise", exc |-> "GuppyError", err |-> "Unresolved", things |-> ""]

Checking(hook, res) == [hook |-> hook, res |-> res]

dummy_check_instantiate_mut(kind) == UnresolvedError

\* dummy_check_instantiate: struct.py lines 385-389, enum.py lines 347-352
dummy_check_instantiate(kind) ==
    IF kind = "struct" THEN UnsupportedError("Recursive structs")
    ELSE UnsupportedError("Recursive definitions")

RestoreHook_mut(hook, d, original) == hook

\* object.__setattr__(defn, "check_instantiate", original)
RestoreHook(hook, d, original) == [hook EXCEPT ![d] = original]

PatchHook_mut(hook, d) == hook

\* object.__setattr__(defn, "check_instantiate", dummy_check_instantiate)
PatchHook(hook, d) == [hook EXCEPT ![d] = "dummy"]

\* A definition whose check is entered while a check of it is in progress repeats
\* the nested calls: Python ends them with RecursionError.
PythonRecursionError ==
    [tag |-> "raise", exc |-> "RecursionError", err |-> "maximum recursion depth exceeded",
     things |-> ""]

RECURSIVE check_def(_, _, _, _)
RECURSIVE type_from_ast(_, _, _, _)
RECURSIVE ParseFields(_, _, _, _, _)

\* type_from_ast on a field's annotation: a name of a type definition goes
\* through that definition's check_instantiate, which is the dummy or the method
\* of the parsed definition (struct.py 227-241, enum.py 199-212): the latter
\* checks the definition.  `stack` holds the definitions whose check is in progress.
type_from_ast(defs, ref, hook, stack) ==
    CASE ref = "int" -> Checking(hook, CheckOk)
      [] ref = "Unknown" -> Checking(hook, UnresolvedError)
      [] OTHER -> IF hook[ref] = "dummy"
                  THEN Checking(hook, dummy_check_instantiate(defs.kind[ref]))
                  ELSE check_def(defs, ref, hook, stack)

\* the loops over the fields (of all variants, for an enum), from field i on
ParseFields(defs, d, i, hook, stack) ==
    IF i > Len(defs.fields[d]) THEN Checking(hook, CheckOk)
    ELSE LET r == type_from_ast(defs, defs.fields[d][i], hook, stack)
         IN IF r.res = CheckOk THEN ParseFields(defs, d, i + 1, r.hook, stack) ELSE r

\* check_not_recursive: struct.py lines 379-395 (the restore is skipped when a
\* field raises), enum.py lines 325-368 (the restore is in a finally)
check_not_recursive(defs, d, hook, stack) ==
    LET original == hook[d]
        r == ParseFields(defs, d, 1, PatchHook(hook, d), stack)
    IN IF r.res = CheckOk \/ defs.kind[d] = "enum"
       THEN Checking(RestoreHook(r.hook, d, original), r.res)
       ELSE r

\* ParsedStructDef.check (struct.py 210-225), ParsedEnumDef.check (enum.py 178-197)
check_def(defs, d, hook, stack) ==
    IF d \in Range(stack) THEN Checking(hook, PythonRecursionError)
    ELSE LET r == check_not_recursive(defs, d, hook, Append(stack, d))
         IN IF r.res = CheckOk THEN ParseFields(defs, d, 1, r.hook, Append(stack, d))
            ELSE r

\* The fields of the definitions: at most MaxRefs annotations in all.
FieldTables ==
    UNION {UNION {{[A |-> a, B |-> b, C |-> c] :
                      c \in SeqsUpTo(FieldRefs, MaxRefs - Len(a) - Len(b))} :
                  b \in SeqsUpTo(FieldRefs, MaxRefs - Len(a))} :
           a \in SeqsUpTo(FieldRefs, MaxRefs)}

KindTables == {[A |-> ka, B |-> kb, C |-> "struct"] : ka, kb \in {"struct", "enum"}}

RecInputs == {[kind |-> k, fields |-> f] : k \in KindTables, f \in FieldTables}

AllOriginal == [d \in TypeDefs |-> "original"]

\* No definition is being checked; the parsed definitions have their own
\* check_instantiate.
RecIdle ==
    /\ r_defs = [kind |-> [d \in TypeDefs |-> "struct"], fields |-> [d \in TypeDefs |-> <<>>]]
    /\ r_hook = AllOriginal
    /\ r_out = NotCalled

\* defn.check(globals) runs to its end on definition d, as get_checked calls it.
CheckDef(d) ==
    /\ r_out = NotCalled
    /\ LET r == check_def(r_defs, d, r_hook, <<>>)
       IN /\ r_hook' = r.hook
          /\ r_out' = [tag |-> "done", d |-> d, res |-> r.res]
    /\ UNCHANGED r_defs
    /\ UNCHANGED <<engineVars, ctxVars, monoVars, trackVars, dropVars, dfVars, protoVars,
                   unifyVars, topVars, coreVars, enumVars>>

RecNext == \E d \in TypeDefs : CheckDef(d)

(***************************************************************************)
(*          Top-level runs: ENGINE.check and ENGINE.compile                *)
(***************************************************************************)
MaxRuns == 2

\* The definitions of the runs: T1 is a struct and T2 an enum here.
RunDefs == {"T1", "T2", "F1", "G0", "G1"}

IsStructDef(id) == id = "T1"

IsEnumDef(id) == id = "T2"

\* defn.params of the definitions with generic parameters
ParamsOf(id) == IF HasParams(id) THEN <<"T">> ELSE <<>>

NoError == [title |-> "", params |-> <<>>]

\* GuppyError(EntryMonomorphizeError(defined_at, description, params)), engine.py 344-352
EntryMonomorphizeError(params) == [title |-> "Invalid entry point", params |-> params]

\* a user error of the parser or the checker
UserError == [title |-> "user error", params |-> <<>>]

EngineCaches(parsed_, checked_, compiled_, types_wl, wl) ==
    [parsed |-> parsed_, checked |-> checked_, compiled |-> compiled_,
     types_to_check_worklist |-> types_wl, to_check_worklist |-> wl]

reset_mut(e) == e

\* CompilationEngine.reset, lines 178-184
reset(e) == EngineCaches(EmptyMap, EmptyMap, EmptyMap, <<>>, <<>>)

\* get_parsed, lines 200-214; the parsed definition is tagged with the run that
\* parsed it
get_parsed(e, id, run) ==
    IF id \in DOMAIN e.parsed THEN e
    ELSE [e EXCEPT !.parsed = (id :> run) @@ @,
                   !.types_to_check_worklist =
                       IF IsTypeDef(id) THEN DictPut(@, id) ELSE @,
                   !.to_check_worklist = EnqueueGeneral(id, @)]

NoUse == <<"none", <<>>>>

\* defn.check in its effect on the engine: it may look one definition up and,
\* when that is generic, register its use (register_generic_use, lines 250-251)
CheckEffect(e, use, run) ==
    IF use = NoUse THEN e
    ELSE LET e1 == get_parsed(e, use[1], run)
         IN IF IsCheckableGenericDef(use[1])
            THEN [e1 EXCEPT !.to_check_worklist = DictPut(@, use)]
            ELSE e1

\* get_checked, lines 225-233
get_checked(e, key, use, run) ==
    IF key \in DOMAIN e.checked THEN e
    ELSE LET e1 == CheckEffect(get_parsed(e, key[1], run), use, run)
         IN [e1 EXCEPT !.checked = (key :> run) @@ @]

\* CheckedStructDef.generated_methods (struct.py 259-293): "__new__";
\* CheckedEnumDef.generated_methods (enum.py 231-284): one per variant
generated_methods(id) ==
    CASE IsStructDef(id) -> <<"__new__">>
      [] IsEnumDef(id) -> <<"V1", "V2">>
      [] OTHER -> <<>>

\* DefId.fresh() of a generated method
MethodId(ty, name, run) == [of |-> ty, name |-> name, run |-> run]

RegistersMethods_mut(id) == FALSE

\* get_checked, line 237: `isinstance(defn, CheckedStructDef)`
RegistersMethods(id) == IsStructDef(id)

\* get_checked, lines 237-240: DEF_STORE.register_def and DEF_STORE.register_impl
\* (lines 121-128) for the generated methods
RegisterGenerated(store, id, run) ==
    IF ~RegistersMethods(id) THEN store
    ELSE LET names == Range(generated_methods(id))
         IN [raw_defs |-> store.raw_defs \cup {MethodId(id, n, run) : n \in names},
             impls |-> [k \in {<<id, n>> : n \in names} |-> MethodId(k[1], k[2], run)]
                       @@ store.impls]

TopCall(pc, kind, entry, err) == [pc |-> pc, kind |-> kind, entry |-> entry, err |-> err]

\* CompilerContext(graph), engine.py line 293: the n-th context, made in a run
Context(n, run) == [n |-> n, run |-> run]

\* The engine and the definition store of a new session.
TopIdle ==
    /\ t_engine = EngineCaches(EmptyMap, EmptyMap, EmptyMap, <<>>, <<>>)
    /\ t_store = [raw_defs |-> {}, impls |-> EmptyMap]
    /\ t_call = TopCall("idle", "none", "none", NoError)
    /\ t_run = 0
    /\ t_ctx = Context(0, 0)

\* ENGINE.check(id), lines 262-266, and ENGINE.compile(id) up to there (line 285):
\* reset, get_parsed, check_valid_entry_point, and the entry point is enqueued
TopStart(kind, id) ==
    /\ t_call.pc \in {"idle", "done", "error"}
    /\ t_run < MaxRuns
    /\ t_run' = t_run + 1
    /\ LET e == get_parsed(reset(t_engine), id, t_run + 1)
       IN IF ValidEntryPoint(id)
          THEN /\ t_engine' = [e EXCEPT !.to_check_worklist = DictPut(@, <<id, <<>>>>)]
               /\ t_call' = TopCall("drain", kind, id, NoError)
          ELSE /\ t_engine' = e
               /\ t_call' = TopCall("error", kind, id, EntryMonomorphizeError(ParamsOf(id)))
    /\ UNCHANGED <<t_store, t_ctx>>
    /\ UNCHANGED <<engineVars, ctxVars, monoVars, trackVars, dropVars, dfVars, protoVars,
                   unifyVars, recVars, coreVars, enumVars>>

TopCheck(id) == TopStart("check", id)

TopCompile(id) == TopStart("compile", id)

\* check, lines 268-277: one turn of the loop, get_checked with the registration
\* of the generated methods (lines 235-242)
TopDrainStep(use) ==
    /\ t_call.pc = "drain"
    /\ t_engine.types_to_check_worklist # <<>> \/ t_engine.to_check_worklist # <<>>
    /\ LET fromTypes == t_engine.types_to_check_worklist # <<>>
           key == IF fromTypes THEN <<PopitemKey(t_engine.types_to_check_worklist), <<>>>>
                  ELSE PopitemKey(t_engine.to_check_worklist)
           popped == IF fromTypes
                     THEN [t_engine EXCEPT !.types_to_check_worklist = PopitemRest(@)]
                     ELSE [t_engine EXCEPT !.to_check_worklist = PopitemRest(@)]
       IN /\ use = NoUse \/ (use[1] # key[1] /\ use[2] \in MonoArgsOf(use[1]))
          /\ t_engine' = get_checked(popped, key, use, t_run)
          /\ t_store' = IF key \in DOMAIN popped.checked THEN t_store
                        ELSE RegisterGenerated(t_store, key[1], t_run)
    /\ UNCHANGED <<t_call, t_run, t_ctx>>
    /\ UNCHANGED <<engineVars, ctxVars, monoVars, trackVars, dropVars, dfVars, protoVars,
                   unifyVars, recVars, coreVars, enumVars>>

\* a definition's check raises a user error: the run is abandoned
TopDrainRaises ==
    /\ t_call.pc = "drain"
    /\ t_engine.types_to_check_worklist # <<>> \/ t_engine.to_check_worklist # <<>>
    /\ t_call' = [t_call EXCEPT !.pc = "error", !.err = UserError]
    /\ UNCHANGED <<t_engine, t_store, t_run, t_ctx>>
    /\ UNCHANGED <<engineVars, ctxVars, monoVars, trackVars, dropVars, dfVars, protoVars,
                   unifyVars, recVars, coreVars, enumVars>>

\* check returns (line 268); compile goes on and makes its CompilerContext
\* (lines 288-293)
TopDrainExit ==
    /\ t_call.pc = "drain"
    /\ t_engine.types_to_check_worklist = <<>>
    /\ t_engine.to_check_worklist = <<>>
    /\ IF t_call.kind = "check"
       THEN /\ t_call' = [t_call EXCEPT !.pc = "done"]
            /\ UNCHANGED t_ctx
       ELSE /\ t_call' = [t_call EXCEPT !.pc = "lower"]
            /\ t_ctx' = Context(t_ctx.n + 1, t_run)
    /\ UNCHANGED <<t_engine, t_store, t_run>>
    /\ UNCHANGED <<engineVars, ctxVars, monoVars, trackVars, dropVars, dfVars, protoVars,
                   unifyVars, recVars, coreVars, enumVars>>

\* compile, lines 294-297: ctx.compile lowers the entry point and the checked
\* definitions it uses, and the engine takes the context's compiled cache
TopLower(used) ==
    /\ t_call.pc = "lower"
    /\ used \subseteq DOMAIN t_engine.checked
    /\ t_engine' = [t_engine EXCEPT !.compiled =
                       [k \in used \cup {<<t_call.entry, <<>>>>} |-> t_ctx.n]]
    /\ t_call' = [t_call EXCEPT !.pc = "done"]
    /\ UNCHANGED <<t_store, t_run, t_ctx>>
    /\ UNCHANGED <<engineVars, ctxVars, monoVars, trackVars, dropVars, dfVars, protoVars,
                   unifyVars, recVars, coreVars, enumVars>>

RunKeys == {<<id, m>> : id \in RunDefs, m \in {<<>>, <<TypeArg("bool")>>}}

TopNext ==
    \/ \E id \in RunDefs : TopCheck(id)
    \/ \E id \in RunDefs : TopCompile(id)
    \/ \E use \in RunKeys \cup {NoUse} : TopDrainStep(use)
    \/ TopDrainRaises
    \/ TopDrainExit
    \/ \E used \in SUBSET RunKeys : TopLower(used)

(***************************************************************************)
(*                 CompilerContext.declare_global_func                     *)
(***************************************************************************)
MaxDecls == 3

\* GlobalConstId: a fresh id and a name; two constants may share a name.
GlobalConstId(id, name) == [id |-> id, name |-> name]

GlobalConstIds == {GlobalConstId(1, "f"), GlobalConstId(2, "f")}

\* the type_args argument: None, or an instantiation
TypeArgsInputs == {NoneArgs, <<>>, <<TypeArg("bool")>>, <<TypeArg("int")>>}

FuncTys == {"() -> int", "() -> bool"}

mono_args_key_mut(type_args) == <<>>

\* line 197: `tuple(type_args) if type_args is not None else ()`
mono_args_key(type_args) == IF type_args = NoneArgs THEN <<>> ELSE type_args

\* module_root_builder().define_function(...), lines 200-205: a new function node
DefineFunction(module, const_id, func_ty) ==
    [node |-> Len(module) + 1, name |-> const_id.name, func_ty |-> func_ty]

DeclIdle == g_funcs = EmptyMap /\ g_module = <<>> /\ g_log = <<>>

ReqIdle == q_in = <<>> /\ q_out = NotCalled

\* declare_global_func, lines 197-207; g_log keeps what each call returned
DeclareGlobalFunc(const_id, func_ty, type_args) ==
    /\ Len(g_log) < MaxDecls
    /\ LET key == <<const_id, mono_args_key(type_args)>>
       IN IF key \in DOMAIN g_funcs
          THEN /\ g_log' = Append(g_log, [key |-> <<const_id, type_args>>,
                                          func |-> g_funcs[key], already |-> TRUE])
               /\ UNCHANGED <<g_funcs, g_module>>
          ELSE LET func == DefineFunction(g_module, const_id, func_ty)
               IN /\ g_module' = Append(g_module, func)
                  /\ g_funcs' = (key :> func) @@ g_funcs
                  /\ g_log' = Append(g_log, [key |-> <<const_id, type_args>>,
                                             func |-> func, already |-> FALSE])
    /\ UNCHANGED <<q_in, q_out>>
    /\ UNCHANGED <<engineVars, ctxVars, monoVars, trackVars, dropVars, dfVars, protoVars,
                   unifyVars, recVars, topVars, enumVars>>

DeclNext ==
    \E const_id \in GlobalConstIds, func_ty \in FuncTys, type_args \in TypeArgsInputs :
        DeclareGlobalFunc(const_id, func_ty, type_args)

(***************************************************************************)
(*                       require_monomorphization                          *)
(***************************************************************************)
MaxGenerics == 3

\* The type of a const parameter: whether it is NumericType(Nat), and the indices
\* of its bound variables.
ConstTy(nat, bound_vars) == [nat |-> nat, bound_vars |-> bound_vars]

TypeParam(idx) == [kind |-> "TypeParam", idx |-> idx, ty |-> ConstTy(FALSE, {})]

ConstParam(idx, ty) == [kind |-> "ConstParam", idx |-> idx, ty |-> ty]

\* The parameters that can stand at index idx of a list of n parameters.
\* The type of a const parameter refers to other parameters of the list.
ParamsAt(idx, n) ==
    {TypeParam(idx), ConstParam(idx, ConstTy(TRUE, {}))}
        \cup {ConstParam(idx, ConstTy(FALSE, refs)) :
                  refs \in SUBSET ((0..(n - 1)) \ {idx})}

\* The lists of n parameters, built up to their first k parameters.
RECURSIVE ParamListsOf(_, _)
ParamListsOf(k, n) ==
    IF k = 0 THEN {<<>>}
    ELSE LET shorter == ParamListsOf(k - 1, n)
         IN {Append(params, param) : params \in shorter, param \in ParamsAt(k - 1, n)}

ReqInputs == UNION {ParamListsOf(n, n) : n \in 0..MaxGenerics}

\* line 401: `case ConstParam(ty=ty) if ty != NumericType(NumericType.Kind.Nat)`
IsNonNatConst(param) == param.kind = "ConstParam" /\ ~param.ty.nat

ReferredParams_mut(params, ty) == {}

\* lines 405-406: `for var in ty.bound_vars: mono_params.add(params[var.idx])`
ReferredParams(params, ty) == {params[idx + 1] : idx \in ty.bound_vars}

\* require_monomorphization, lines 399-409: the loop over params from position i
RECURSIVE MonoParamsFrom(_, _, _)
MonoParamsFrom(params, i, mono_params) ==
    IF i > Len(params) THEN mono_params
    ELSE MonoParamsFrom(params, i + 1,
             IF IsNonNatConst(params[i])
             THEN mono_params \cup {params[i]} \cup ReferredParams(params, params[i].ty)
             ELSE mono_params)

require_monomorphization(params) == MonoParamsFrom(params, 1, {})

CallRequireMonomorphization ==
    /\ q_out = NotCalled
    /\ q_out' = [tag |-> "done", result |-> require_monomorphization(q_in)]
    /\ UNCHANGED <<q_in, g_funcs, g_module, g_log>>
    /\ UNCHANGED <<engineVars, ctxVars, monoVars, trackVars, dropVars, dfVars, protoVars,
                   unifyVars, recVars, topVars, enumVars>>

ReqNext == CallRequireMonomorphization

CoreIdle == DeclIdle /\ ReqIdle

(***************************************************************************)
(*                  RawEnumDef.parse: the class body                       *)
(***************************************************************************)
MaxBody == 3

EnumName == "MyEnum"

VariantNames == {"A", "B"}

\* the keys of a variant's dict literal, in order
FieldLists == {<<>>, <<"x">>, <<"x", "x">>}

\* A statement of the class body.  "Assign" is `name = {...}`, "TupleAssign" is
\* `A, B = {...}, {...}`, "Doc" a string expression, "Other" any other statement.
Stmt(stmt, name, guppy, fields) ==
    [stmt |-> stmt, name |-> name, guppy |-> guppy, fields |-> fields]

BodyStmts ==
    {Stmt("Pass", "", FALSE, <<>>), Stmt("Doc", "", FALSE, <<>>),
     Stmt("Other", "", FALSE, <<>>), Stmt("TupleAssign", "", FALSE, <<"x">>)}
        \cup {Stmt("FunctionDef", name, guppy, <<>>) :
                  name \in VariantNames, guppy \in BOOLEAN}
        \cup {Stmt("Assign", name, FALSE, fields) :
                  name \in VariantNames, fields \in FieldLists}

\* The targets and the dict literals of the tuple assignment
\* `A, B = {}, {"x": int}`.
TupleTargets == <<"A", "B">>

TupleDicts(node) == <<<<>>, node.fields>>

EnumBodies == SeqsUpTo(BodyStmts, MaxBody)

EnumVariant(index, name, fields) == [index |-> index, name |-> name, fields |-> fields]

ParsedEnumDef(name, variants) == [tag |-> "ParsedEnumDef", name |-> name, variants |-> variants]

EnumError(title, class_name, name) ==
    [tag |-> "raise", exc |-> "GuppyError", title |-> title, class_name |-> class_name,
     name |-> name]

\* DuplicateVariantError(loc, class_name, variant_name), lines 52-59
DuplicateVariantError(class_name, variant_name) ==
    EnumError("Duplicate variant", class_name, variant_name)

\* NonGuppyMethodError(loc, class_name, method_name, "enum"), util.py 56-64
NonGuppyMethodError(class_name, method_name) ==
    EnumError("Not a Guppy method", class_name, method_name)

\* DuplicateFieldError(k, name, key_name, class_type="Enum variant"), util.py 45-53
DuplicateFieldError(variant_name, field_name) ==
    EnumError("Duplicate field", variant_name, field_name)

\* UnexpectedError(node, things, unexpected_in=...)
UnexpectedError(things) == EnumError("Unexpected", "", things)

\* `not key_name.isidentifier() or keyword.iskeyword(key_name)`, line 296
InvalidFieldName(key_name) == key_name \in {"class", "1x"}

\* parse_enum_variant, lines 286-321: the loop over the dict's keys from place k
RECURSIVE VariantFieldsFrom(_, _, _, _, _)
VariantFieldsFrom(index, name, keys, k, variant_fields) ==
    IF k > Len(keys) THEN EnumVariant(index, name, variant_fields)
    ELSE IF InvalidFieldName(keys[k]) THEN UnexpectedError("field name")
    ELSE IF keys[k] \in Range(variant_fields) THEN DuplicateFieldError(name, keys[k])
    ELSE VariantFieldsFrom(index, name, keys, k + 1, Append(variant_fields, keys[k]))

parse_enum_variant(index, name, keys) == VariantFieldsFrom(index, name, keys, 1, <<>>)

IsRaise(result) == "tag" \in DOMAIN result /\ result.tag = "raise"

VariantNamed(variants, name) == \E k \in DOMAIN variants : variants[k].name = name

\* getattr(self.python_class, func_name), line 156: what the class body bound the
\* name to last
RECURSIVE ClassAttr(_, _, _)
ClassAttr(body, i, name) ==
    IF i = 0 THEN Stmt("Other", "", FALSE, <<>>)
    ELSE IF body[i].stmt \in {"FunctionDef", "Assign"} /\ body[i].name = name THEN body[i]
    ELSE IF body[i].stmt = "TupleAssign" /\ name \in Range(TupleTargets) THEN body[i]
    ELSE ClassAttr(body, i - 1, name)

\* line 157: `isinstance(v, GuppyDefinition)`
IsGuppyDefinition(body, name) ==
    LET v == ClassAttr(body, Len(body), name)
    IN v.stmt = "FunctionDef" /\ v.guppy

FirstFuncCheck_mut(body, variants, func_name) ==
    IF ~IsGuppyDefinition(body, func_name)
    THEN NonGuppyMethodError(EnumName, func_name)
    ELSE IF VariantNamed(variants, func_name)
    THEN DuplicateVariantError(EnumName, func_name)
    ELSE CheckOk

\* lines 150-160: the two checks on one function of the class body
FirstFuncCheck(body, variants, func_name) ==
    IF VariantNamed(variants, func_name)
    THEN DuplicateVariantError(EnumName, func_name)
    ELSE IF ~IsGuppyDefinition(body, func_name)
    THEN NonGuppyMethodError(EnumName, func_name)
    ELSE CheckOk

\* lines 147-162: the loop over used_func_names from place k, and the result
RECURSIVE CheckFuncsFrom(_, _, _, _)
CheckFuncsFrom(body, variants, used_func_names, k) ==
    IF k > Len(used_func_names) THEN ParsedEnumDef(EnumName, variants)
    ELSE LET res == FirstFuncCheck(body, variants, used_func_names[k])
         IN IF IsRaise(res) THEN res
            ELSE CheckFuncsFrom(body, variants, used_func_names, k + 1)

\* lines 101-143: the loop over cls_def.body from statement i (Python's i + 1).
\* A tuple of names assigned a tuple of dicts is not the pattern
\* `targets=[ast.Name(id=variant_name)], value=ast.Dict()` of lines 118-123; it
\* is met by the last case, like any other statement.
RECURSIVE ParseBodyFrom(_, _, _, _)
ParseBodyFrom(body, i, variants, used_func_names) ==
    IF i > Len(body) THEN CheckFuncsFrom(body, variants, used_func_names, 1)
    ELSE LET node == body[i]
         IN CASE node.stmt = "Pass" -> ParseBodyFrom(body, i + 1, variants, used_func_names)
              [] node.stmt = "Doc" /\ i = 1 ->
                     ParseBodyFrom(body, i + 1, variants, used_func_names)
              [] node.stmt = "FunctionDef" ->
                     ParseBodyFrom(body, i + 1, variants, DictPut(used_func_names, node.name))
              [] node.stmt = "Assign" ->
                     IF VariantNamed(variants, node.name)
                     THEN DuplicateVariantError(EnumName, node.name)
                     ELSE LET variant == parse_enum_variant(Len(variants), node.name,
                                                            node.fields)
                          IN IF IsRaise(variant) THEN variant
                             ELSE ParseBodyFrom(body, i + 1, Append(variants, variant),
                                                used_func_names)
              [] OTHER -> UnexpectedError("statement")

\* RawEnumDef.parse, lines 97-162
parse_enum(body) == ParseBodyFrom(body, 1, <<>>, <<>>)

EnumIdle == n_body = <<>> /\ n_out = NotCalled

ParseEnum ==
    /\ n_out = NotCalled
    /\ n_out' = parse_enum(n_body)
    /\ UNCHANGED n_body
    /\ UNCHANGED <<engineVars, ctxVars, monoVars, trackVars, dropVars, dfVars, protoVars,
                   unifyVars, recVars, topVars, coreVars>>

EnumNext == ParseEnum

PassInit == DropInit /\ DfInit /\ ProtoIdle /\ UnifyIdle /\ RecIdle /\ TopIdle /\ CoreIdle /\ EnumIdle

\* The state after construction: a reset engine, a fresh compile context, no
\* conversion called, a graph holding one declared function.
Init == EngineInit /\ CtxInit /\ MonoIdle /\ TrackInit /\ PassInit

\* The state in which CompilerContext.compile is called.
InitCompile == EngineAfterCheck /\ CtxInit /\ MonoIdle /\ TrackInit /\ PassInit

\* A compile context lowering a body under any partial monomorphization.
InitMono ==
    /\ EngineInit /\ CtxInitRest /\ current_mono_args \in MonoInputs /\ MonoIdle
    /\ TrackInit /\ PassInit

\* check_protocol is about to be called, on any of the inputs.
InitProto ==
    /\ EngineInit /\ CtxInit /\ MonoIdle /\ TrackInit /\ DropInit /\ DfInit /\ UnifyIdle /\ RecIdle /\ TopIdle /\ EnumIdle
    /\ CoreIdle /\ p_in \in ProtoInputs /\ p_out = NotCalled

\* _unify_args is about to be called, on any two argument lists.
InitUnify ==
    /\ EngineInit /\ CtxInit /\ MonoIdle /\ TrackInit /\ DropInit /\ DfInit /\ ProtoIdle /\ RecIdle /\ TopIdle /\ EnumIdle
    /\ CoreIdle /\ u_in \in UnifyInputs /\ u_out = NotCalled

\* A type definition is about to be checked, in any module of type definitions.
InitRec ==
    /\ EngineInit /\ CtxInit /\ MonoIdle /\ TrackInit /\ DropInit /\ DfInit /\ ProtoIdle
    /\ UnifyIdle /\ TopIdle /\ EnumIdle /\ CoreIdle
    /\ r_defs \in RecInputs /\ r_hook = AllOriginal /\ r_out = NotCalled

SpecEngine ==
    /\ Init
    /\ [][EngineNext]_vars

\* The compile phase: the engine has returned from check.
SpecCompile ==
    /\ InitCompile
    /\ [][CtxNext]_vars

\* The variable conversions applied under every partial monomorphization of up to
\* MaxParams parameters.
SpecMono ==
    /\ InitMono
    /\ [][MonoNext]_vars

\* One tracked interval over nested regions, and node insertions after it.
SpecTrack ==
    /\ Init
    /\ [][TrackNext]_vars

\* One tracked interval over the operations of the catalogue, in one function body.
SpecOps ==
    /\ Init
    /\ [][OpsNext]_vars

\* The drop-insertion pass run over finished graphs, once and again.
SpecDrops ==
    /\ Init
    /\ [][DropNext]_vars

\* Assignments, lookups and one copy on a DFContainer.
SpecDf ==
    /\ Init
    /\ [][DfNext]_vars

\* One call of check_protocol on every input.
SpecProto ==
    /\ InitProto
    /\ [][ProtoNext]_vars

\* One call of _unify_args on every pair of argument lists.
SpecUnify ==
    /\ InitUnify
    /\ [][UnifyNext]_vars

\* One type definition is checked, in every module of type definitions.
SpecRec ==
    /\ InitRec
    /\ [][RecNext]_vars

\* require_monomorphization is about to be called, on any list of parameters.
InitReq ==
    /\ EngineInit /\ CtxInit /\ MonoIdle /\ TrackInit /\ DropInit /\ DfInit /\ ProtoIdle
    /\ UnifyIdle /\ RecIdle /\ TopIdle /\ EnumIdle /\ DeclIdle
    /\ q_in \in ReqInputs /\ q_out = NotCalled

\* Any sequence of declare_global_func calls on one CompilerContext.
SpecDecl ==
    /\ Init
    /\ [][DeclNext]_vars

SpecReq ==
    /\ InitReq
    /\ [][ReqNext]_vars

\* RawEnumDef.parse is about to be called, on any class body.
InitEnum ==
    /\ EngineInit /\ CtxInit /\ MonoIdle /\ TrackInit /\ DropInit /\ DfInit /\ ProtoIdle
    /\ UnifyIdle /\ RecIdle /\ TopIdle /\ CoreIdle
    /\ n_body \in EnumBodies /\ n_out = NotCalled

SpecEnum ==
    /\ InitEnum
    /\ [][EnumNext]_vars

\* The tracked interval of a body with a Conditional of two Cases.
InitBranches ==
    /\ EngineInit /\ CtxInit /\ MonoIdle /\ BranchesInit /\ PassInit

SpecBranches ==
    /\ InitBranches
    /\ [][BranchesNext]_vars

\* Top-level checks and compiles, one after the other, in one session.
SpecRuns ==
    /\ Init
    /\ [][TopNext]_vars

\* The claim's value of a renumbered index: idx minus the decided slots below it.
Decided(mono_args) == {j \in 0..(Len(mono_args) - 1) : mono_args[j + 1] # None}

Undecided(mono_args) == {j \in 0..(Len(mono_args) - 1) : mono_args[j + 1] = None}

ShiftedIdx(idx, mono_args) ==
    idx - Cardinality({j \in Decided(mono_args) : j < idx})

\* C5: for an undecided slot idx, compile_variable_idx(idx, mono_args) is idx minus
\* the number of decided slots below idx; over the undecided indices it is strictly
\* increasing and takes exactly the values 0..m-1, m the number of undecided slots;
\* on a decided slot it is an assertion failure.
C5_IndexCompaction ==
    /\ (m_call # <<>> /\ m_call[1] = "compile_variable_idx") =>
          IF m_call[2] \in Undecided(current_mono_args)
          THEN m_out = IntResult(ShiftedIdx(m_call[2], current_mono_args))
          ELSE m_out.tag = "AssertionError"
    /\ current_mono_args # NoneArgs =>
          LET U == Undecided(current_mono_args)
          IN /\ \A i, j \in U :
                   i < j => compile_variable_idx(i, current_mono_args).value
                               < compile_variable_idx(j, current_mono_args).value
             /\ {compile_variable_idx(i, current_mono_args).value : i \in U}
                   = 0..(Cardinality(U) - 1)

\* C5 witness: an undecided slot above a decided one and above another undecided
\* one was renumbered downwards.
C5_Witness ==
    /\ m_call # <<>>
    /\ m_call[1] = "compile_variable_idx"
    /\ m_out.tag = "int"
    /\ m_out.value < m_call[2]
    /\ m_out.value > 0

\* C6: type_var_to_hugr and const_var_to_hugr keep the variable's own index when
\* there is no active monomorphization; under one, a decided slot yields the
\* decided concrete value, an undecided slot the variable renumbered as in C5, and
\* a decided slot of the wrong kind (a constant for a type variable, a type or a
\* constant that is no integer value for a constant variable) the internal error
\* "Invalid monomorphization".
\* (const_var_to_hugr accepts nat-typed variables only: any other is rejected
\* with an internal error before the monomorphization is looked at.)
C6_VarToHugr ==
    /\ (m_call # <<>> /\ m_call[1] = "type_var_to_hugr") =>
          LET var == m_call[2]
          IN IF current_mono_args = NoneArgs
             THEN m_out = HugrVariable(var.idx, var.hugr_bound)
             ELSE LET slot == current_mono_args[var.idx + 1]
                  IN CASE slot = None ->
                            m_out = HugrVariable(ShiftedIdx(var.idx, current_mono_args),
                                                 var.hugr_bound)
                       [] slot.arg = "TypeArg" ->
                            m_out = [tag |-> "hugr type", ty |-> slot.ty]
                       [] OTHER ->
                            /\ m_out.tag = "InternalGuppyError"
                            /\ m_out.message = "Invalid monomorphization"
    /\ (m_call # <<>> /\ m_call[1] = "const_var_to_hugr") =>
          LET var == m_call[2]
          IN IF var.ty # "nat"
             THEN m_out.tag = "InternalGuppyError"
             ELSE IF current_mono_args = NoneArgs
             THEN m_out = HugrVariableArg(var.idx)
             ELSE LET slot == current_mono_args[var.idx + 1]
                  IN CASE slot = None ->
                            m_out = HugrVariableArg(ShiftedIdx(var.idx, current_mono_args))
                       [] slot.arg = "ConstArg" /\ slot.const \in {"int", "bool"} ->
                            m_out = HugrBoundedNatArg(slot.value)
                       [] OTHER ->
                            /\ m_out.tag = "InternalGuppyError"
                            /\ m_out.message = "Invalid monomorphization"

\* C6 witness: a type variable at an undecided slot above a decided slot was
\* converted, so its index was renumbered.
C6_Witness ==
    /\ m_call # <<>>
    /\ m_call[1] = "type_var_to_hugr"
    /\ current_mono_args # NoneArgs
    /\ current_mono_args[m_call[2].idx + 1] = None
    /\ m_out.idx < m_call[2].idx

\* C3: on one CompilerContext the outer signature of a (DefId, type args) key is
\* emitted at most once, every build_compiled_def call with the same key returns
\* the same compiled definition, and different type-argument tuples of one DefId
\* have separate cache entries holding different compiled definitions.
C3_CompiledOncePerKey ==
    /\ \A key \in MonoDefIds : outerRuns[key] <= 1
    /\ \A p, q \in buildLog : (p[1] = q[1]) <=> (p[2] = q[2])
    /\ \A p \in buildLog : p[1] \in DOMAIN compiled /\ compiled[p[1]] = p[2]

\* C3 witness: build_compiled_def was called twice with one key of a generic
\* definition and also with another type-argument tuple of the same DefId.
C3_Witness ==
    \E k1, k2 \in DOMAIN compiled :
        /\ k1[1] = k2[1] /\ k1[2] # k2[2]
        /\ buildCalls[k1] >= 2
        /\ outerRuns[k1] = 1 /\ outerRuns[k2] = 1

\* C4: when CompilerContext.compile returns, the worklist is empty and every
\* MonoDefId registered by build_compiled_def (the entry point, put on the worklist
\* twice, included) has had compile_inner run exactly once, and no other key has.
C4_EveryBodyLoweredOnce ==
    cpc = "done" =>
        /\ worklist = <<>>
        /\ \A key \in MonoDefIds :
              innerRuns[key] = IF key \in DOMAIN compiled THEN 1 ELSE 0

\* C4 witness: compile returned after lowering a body that was registered while
\* another body was being lowered.
C4_Witness ==
    /\ cpc = "done"
    /\ nestedRegistered # {}
    /\ \A key \in nestedRegistered : innerRuns[key] = 1

\* C1: the drain loop of check takes an item from the general worklist only when
\* the types-first worklist is empty at that moment, and every type definition
\* enqueued before that take (also one enqueued while an earlier general item was
\* being checked) has been drained and checked by then.
C1_TypesDrainedFirst ==
    \A i \in 1..Len(popLog) :
        popLog[i].from = "general" =>
            popLog[i].typesLeft = 0 /\ popLog[i].typesPending = {}

\* C1 witness: a general item was taken, then a type definition (enqueued while
\* that item was being checked), then the next general item.
C1_Witness ==
    \E i, j, k \in 1..Len(popLog) :
        /\ i < j /\ j < k
        /\ popLog[i].from = "general"
        /\ popLog[j].from = "types"
        /\ popLog[k].from = "general"

Links == Range(order_links)

\* An operation node added during the tracked interval.
TrackedLeaf(i) ==
    /\ hugr[i].phase = "tracked"
    /\ hugr[i].op.kind \notin {"Input", "Output", "Conditional", "CFG", "DFG", "Case",
                               "DataflowBlock"}

SideEffectLeaf(i) == TrackedLeaf(i) /\ may_have_side_effect(hugr[i].op)

InputOf(scope) == Children(hugr, scope)[1]

OutputOf(scope) == Children(hugr, scope)[2]

\* The positions of `recorded` that belong to a scope.
RecordsOf(scope) == {k \in 1..Len(recorded) : recorded[k][1] = scope}

Last(S) == CHOOSE k \in S : \A j \in S : j <= k

C8_LastLinkedToOutput ==
    tpc = "exited" =>
        \A scope \in 1..Len(hugr) :
            hugr[scope].op.kind \in DataflowParents =>
                LET into == {k \in 1..Len(order_links) :
                                order_links[k][2] = OutputOf(scope)}
                IN IF RecordsOf(scope) # {}
                   THEN /\ Cardinality(into) = 1
                        /\ \A k \in into :
                              order_links[k][1] = recorded[Last(RecordsOf(scope))][2]
                   ELSE into = {}

\* C8 witness: the interval ended normally with side-effecting nodes recorded in
\* two scopes and a third dataflow scope without any.
C8_Witness ==
    /\ tpc = "exited"
    /\ \E p, q, r \in 1..Len(hugr) :
          /\ p # q
          /\ RecordsOf(p) # {} /\ RecordsOf(q) # {}
          /\ hugr[r].op.kind \in DataflowParents /\ RecordsOf(r) = {}

\* C9: after the tracked interval has ended, by return or by an error, Hugr.add_node
\* is the original method again, and no node added after the interval is the
\* source or the target of an order edge.
C9_AddNodeRestored ==
    tpc \in {"exited", "raised"} =>
        /\ add_node = "original"
        /\ \A i \in 1..Len(hugr) :
              hugr[i].phase = "after" =>
                  \A k \in 1..Len(order_links) :
                      order_links[k][1] # i /\ order_links[k][2] # i

\* C9 witness: the lowering raised an error, and afterwards a side-effecting
\* operation was added to a scope in which one had been recorded.
C9_Witness ==
    /\ tpc = "raised"
    /\ \E i \in 1..Len(hugr) :
          /\ hugr[i].phase = "after"
          /\ may_have_side_effect(hugr[i].op)
          /\ RecordsOf(hugr[i].parent) # {}

\* The qualified names of the operations the claim lists: result emission, panic,
\* exit, debug state dump, qubit allocation, qubit free, measure-and-free.
ListedNames ==
    {"tket.result.result_int", "tket.result.result_bool", "prelude.panic",
     "prelude.exit", "tket.debug.StateResult", "tket.quantum.QAlloc",
     "tket.quantum.QFree", "tket.quantum.MeasureFree"}

Listed(op) ==
    /\ op.kind \in {"ExtOp", "Custom"}
    /\ (IF op.ext = "" THEN op.name ELSE op.ext \o "." \o op.name) \in ListedNames

IsCall(op) == op.kind \in {"Call", "CallIndirect"}

HasOrderEdge(i) ==
    \E k \in 1..Len(order_links) : order_links[k][1] = i \/ order_links[k][2] = i

\* C10 as stated: an added operation gets order edges exactly when it is one of
\* the listed operations.
C10_Original ==
    \A i \in 1..Len(hugr) :
        TrackedLeaf(i) => (HasOrderEdge(i) <=> Listed(hugr[i].op))

\* C10, amended: an added operation gets order edges exactly when it is one of the
\* listed operations or a function call (Call, CallIndirect); any other operation
\* gets none, so two operations without side effect have no order edge between
\* them.
C10_SideEffectMembership ==
    /\ \A i \in 1..Len(hugr) :
          TrackedLeaf(i) =>
              (HasOrderEdge(i) <=> (Listed(hugr[i].op) \/ IsCall(hugr[i].op)))
    /\ \A a, b \in 1..Len(hugr) :
          (/\ TrackedLeaf(a) /\ TrackedLeaf(b)
           /\ ~Listed(hugr[a].op) /\ ~IsCall(hugr[a].op)
           /\ ~Listed(hugr[b].op) /\ ~IsCall(hugr[b].op))
              => <<a, b>> \notin Links /\ <<b, a>> \notin Links

\* C10 witness: two operations without side effect and a call were added in one
\* scope; the call has an order edge.
C10_Witness ==
    \E a, b, c \in 1..Len(hugr) :
        /\ a # b
        /\ TrackedLeaf(a) /\ TrackedLeaf(b) /\ TrackedLeaf(c)
        /\ ~may_have_side_effect(hugr[a].op) /\ ~may_have_side_effect(hugr[b].op)
        /\ IsCall(hugr[c].op)
        /\ HasOrderEdge(c)

(***************************************************************************)
(*                   Properties of the drop insertion                      *)
(***************************************************************************)
\* The types a value of type ty holds directly: the type arguments of an
\* extension type, the elements of the rows of a sum (tuples and options are sums).
Components(ty) ==
    CASE ty.k \in {"ExtType", "Opaque"} ->
            {ty.args[i].ty : i \in {j \in 1..Len(ty.args) : ty.args[j].arg = "TypeTypeArg"}}
      [] ty.k = "Sum" ->
            UNION {{ty.rows[r][j] : j \in 1..Len(ty.rows[r])} : r \in 1..Len(ty.rows)}
      [] OTHER -> {}

RECURSIVE Contained(_)
Contained(ty) == {ty} \cup UNION {Contained(c) : c \in Components(ty)}

IsAffineExtension(ty) ==
    /\ ty.k \in {"ExtType", "Opaque"}
    /\ <<ty.extension, ty.name>> \in {<<"collections.array", "array">>,
                                      <<"collections.borrow_arr", "borrow_array">>}

IsLinearVariable(ty) == ty.k = "Variable" /\ ty.bound = "Linear"

\* An affine extension type, a linear-bounded type variable, or a composite
\* containing one.
NeedsDrop(ty) == \E t \in Contained(ty) : IsAffineExtension(t) \/ IsLinearVariable(t)

\* The drop nodes the pass linked to out port i of node n.
DropsOn(n, i) ==
    {d \in d_nodes[n].outs[i].links : d > Len(d_before) /\ d_nodes[d].op = "drop"}

OriginalPorts == {<<n, i>> \in (1..Len(d_before)) \X (1..(MaxDropPorts + 2)) :
                     i <= Len(d_before[n].outs)}

\* C11: after insert_drops has run, an out port of the graph has a drop node
\* linked to it (one, under the parent of the port's node) if and only if before
\* the pass it was unlinked, carried a value of a type that needs a drop, and did
\* not belong to a function definition; every other port is as it was, and the
\* pass adds nothing but these drop nodes.
C11_DropsExactlyWhereNeeded ==
    d_runs >= 1 =>
        /\ \A pi \in OriginalPorts :
              LET n == pi[1]
                  i == pi[2]
                  pre == d_before[n].outs[i]
                  post == d_nodes[n].outs[i]
              IN /\ (DropsOn(n, i) # {}) <=>
                        (/\ pre.links = {}
                         /\ pre.kind = "Value"
                         /\ NeedsDrop(pre.ty)
                         /\ d_before[n].op # "FuncDefn")
                 /\ DropsOn(n, i) = {} => post = pre
                 /\ DropsOn(n, i) # {} =>
                        /\ Cardinality(DropsOn(n, i)) = 1
                        /\ post.links = DropsOn(n, i)
                        /\ \A d \in DropsOn(n, i) : d_nodes[d].parent = d_before[n].parent
        /\ \A n \in 1..Len(d_nodes) :
              IF n <= Len(d_before)
              THEN /\ d_nodes[n].op = d_before[n].op
                   /\ d_nodes[n].parent = d_before[n].parent
                   /\ Len(d_nodes[n].outs) = Len(d_before[n].outs)
              ELSE /\ d_nodes[n].op = "drop"
                   /\ \E pi \in OriginalPorts : n \in DropsOn(pi[1], pi[2])

\* C11 witness: the pass ran over a graph with an unlinked port of a composite
\* type holding an array, which got a drop, and a value port that got none.
C11_Witness ==
    /\ d_runs = 1
    /\ \E pi \in OriginalPorts :
          /\ d_before[pi[1]].outs[pi[2]].ty.k = "Sum"
          /\ DropsOn(pi[1], pi[2]) # {}
    /\ \E pi \in OriginalPorts :
          /\ d_before[pi[1]].outs[pi[2]].kind = "Value"
          /\ DropsOn(pi[1], pi[2]) = {}

\* C12: a second run of insert_drops over a graph it has run over adds no drop:
\* the graph after two runs is the graph after one run.
C12_DropsIdempotent ==
    d_runs >= 2 => d_nodes = d_first

\* C12 witness: the pass ran twice over a graph in which the first run inserted
\* a drop.
C12_Witness ==
    /\ d_runs >= 2
    /\ Len(d_first) > Len(d_before)

\* The sub-places of a place: every chain of field / element accesses below it.
RECURSIVE SubPlaces(_)
SubPlaces(place) ==
    LET children == ChildPlaces(place)
    IN UNION {{children[i]} \cup SubPlaces(children[i]) : i \in DOMAIN children}

LeafPlaces(place) == {p \in SubPlaces(place) : ~IsComposite(p)}

\* The container the last call was made on, as it is after the call.
LastLocals == df_maps[df_ref[df_last.c]]

UnpackOutput(wire) ==
    /\ wire.node \in 1..Len(df_ops)
    /\ df_ops[wire.node].op = "UnpackTuple"

\* C13: after a wire was assigned to a struct- or tuple-typed place that is not a
\* return-value variable, no wire is stored under the place (whatever was stored
\* there before) nor under a composite sub-place, and every leaf sub-place holds
\* a wire of its own that an unpacking made; assigned to a return-value variable,
\* the wire itself is stored under the variable.
C13_EagerUnpacking ==
    (df_last.call = "set" /\ IsComposite(df_last.place)) =>
        IF IsReturnPlace(df_last.place)
        THEN /\ df_last.place \in DOMAIN LastLocals
             /\ LastLocals[df_last.place] = df_last.wire
        ELSE /\ df_last.place \notin DOMAIN LastLocals
             /\ \A p \in SubPlaces(df_last.place) :
                    IF IsComposite(p) THEN p \notin DOMAIN LastLocals
                    ELSE /\ p \in DOMAIN LastLocals
                         /\ UnpackOutput(LastLocals[p])
                         /\ LastLocals[p] # df_last.wire
                         /\ \A q \in DOMAIN df_last.before : LastLocals[p] # df_last.before[q]
             /\ \A p, q \in LeafPlaces(df_last.place) :
                    p # q => LastLocals[p] # LastLocals[q]

\* A struct was assigned over a wire that a lookup had stored under it, and a
\* return-value variable was assigned.
C13_Witness ==
    /\ df_last.call = "set"
    /\ df_last.place = Place("x", <<>>)
    /\ df_last.place \in DOMAIN df_last.before
    /\ \E c \in 1..Len(df_ref) : Place("%ret0", <<>>) \in DOMAIN df_maps[df_ref[c]]

\* The claim's reading of a lookup: it can succeed when a wire is stored, or the
\* place is composite and every part can be looked up.
RECURSIVE Resolvable(_, _)
Resolvable(place, locals) ==
    \/ place \in DOMAIN locals
    \/ /\ IsComposite(place)
       /\ \A i \in DOMAIN ChildPlaces(place) : Resolvable(ChildPlaces(place)[i], locals)

PackOutput(wire) ==
    /\ wire.node \in 1..Len(df_ops)
    /\ wire.port = 0
    /\ df_ops[wire.node].op = "MakeTuple"

\* C14: a lookup returns the wire stored under the place when there is one;
\* otherwise, for a struct or tuple place, it returns a new wire made by packing
\* the wires its parts look up to, one input per part (and fails when a part
\* fails), and for a place of another type it fails with InternalGuppyError.
C14_Lookup ==
    df_last.call = "get" =>
        LET place == df_last.place
            before == df_last.before
            result == df_last.result
        IN IF place \in DOMAIN before
           THEN result = WireResult(before[place])
           ELSE IF IsComposite(place) /\ Resolvable(place, before)
           THEN /\ result.tag = "wire"
                /\ PackOutput(result.wire)
                /\ \A q \in DOMAIN before : result.wire # before[q]
                /\ LET inputs == df_ops[result.wire.node].inputs
                       children == ChildPlaces(place)
                   IN /\ Len(inputs) = Len(children)
                      /\ \A i \in DOMAIN children :
                             IF children[i] \in DOMAIN before
                             THEN inputs[i] = before[children[i]]
                             ELSE PackOutput(inputs[i])
           ELSE result.tag = "InternalGuppyError"

\* A struct with no wire of its own was looked up and repacked, one of its parts
\* being repacked in turn.
C14_Witness ==
    /\ df_last.call = "get"
    /\ df_last.place = Place("x", <<>>)
    /\ df_last.place \notin DOMAIN df_last.before
    /\ Place("x", <<"b">>) \notin DOMAIN df_last.before
    /\ df_last.result.tag = "wire"

\* C15: once a container is copied, a call on one of the two containers leaves
\* the place-to-wire map of the other as it was.
C15_CopyDoesNotAlias ==
    [][\A k \in 1..Len(df_ref) :
          (df_last'.call \in {"set", "get"} /\ df_last'.c # k /\ k \in 1..Len(df_ref')) =>
              df_maps'[df_ref'[k]] = df_maps[df_ref[k]]]_vars

\* The copy was assigned to and now differs from the original.
C15_Witness ==
    /\ Len(df_ref) = 2
    /\ df_last.call = "set"
    /\ df_last.c = 2
    /\ df_maps[df_ref[2]] # df_maps[df_ref[1]]
    /\ df_maps[df_ref[1]] = df_last.before

\* The call under check was made: on a bound type variable, or a concrete type.
CalledOnBound == p_out # NotCalled /\ p_in.ty.k = "bound"

CalledOnConcrete == p_out # NotCalled /\ p_in.ty.k = "con"

\* A declared assumption names the requested protocol and its arguments agree with
\* the requested ones wherever both are solved.
MatchesRequest(impl) ==
    /\ impl.def_id = p_in.protocol.def_id
    /\ \A i \in DOMAIN impl.type_args :
           \/ p_in.protocol.type_args[i].k = "var"
           \/ impl.type_args[i].k = "var"
           \/ p_in.protocol.type_args[i] = impl.type_args[i]

Matching == {i \in DOMAIN p_in.implements : MatchesRequest(p_in.implements[i])}

\* C16: on a bound type variable check_protocol returns only when exactly one
\* declared assumption names the requested protocol and unifies with its
\* arguments, and the proof is the assumption proof; with none or several it
\* raises.
C16_ExactlyOneAssumption ==
    CalledOnBound =>
        /\ p_out.tag = "return" =>
               Cardinality(Matching) = 1 /\ p_out.proof.tag = "AssumptionImplProof"
        /\ Cardinality(Matching) # 1 =>
               p_out.tag = "raise" /\ p_out.exc = "Exception"

\* Two assumptions on the requested protocol both unify, and the call raised.
C16_Witness ==
    /\ CalledOnBound
    /\ Cardinality(Matching) = 2
    /\ p_in.implements[1] # p_in.implements[2]
    /\ p_out.tag = "raise"

\* The places, in declaration order, of the members the type has no method for.
MissingAt == {i \in DOMAIN p_in.members : p_in.members[i].name \notin DOMAIN p_in.funcs}

FirstMissing == CHOOSE i \in MissingAt : \A j \in MissingAt : i <= j

MissingError(i) ==
    [tag |-> "raise", exc |-> "GuppyError",
     err |-> [title |-> "Protocol member implementation missing",
              impl_name |-> "MyType", proto_name |-> "MyProto",
              member_name |-> p_in.members[i].name],
     at |-> p_in.members[i].name]

\* C17 as stated: whenever the concrete type lacks a method for a declared
\* member, the call fails with the missing-member error naming that member.
C17_Original ==
    CalledOnConcrete => \A i \in MissingAt : p_out = MissingError(i)

MemberPlace(name) == CHOOSE i \in DOMAIN p_in.members : p_in.members[i].name = name

\* C17: when the concrete type lacks a method for a declared member the call
\* raises at the first member, in declaration order, that fails; it is the
\* missing-member error naming the type, the protocol and the first member
\* without a method when no earlier member fails, and otherwise the signature
\* mismatch or unresolved-variable failure of that earlier member.
C17_FirstFailureReported ==
    (CalledOnConcrete /\ MissingAt # {}) =>
        /\ p_out.tag = "raise"
        /\ p_out.at \in {p_in.members[i].name : i \in 1..FirstMissing}
        /\ IF MemberPlace(p_out.at) = FirstMissing
           THEN p_out = MissingError(FirstMissing)
           ELSE /\ p_out.exc = "Exception"
                /\ p_out.msg \in {"Signature Mismatch", "Unresolved variables in implementation"}

\* The second declared member has no method, the first one passed, and the error
\* names the second.
C17_Witness ==
    /\ CalledOnConcrete
    /\ MissingAt = {2}
    /\ p_out.tag = "raise"
    /\ p_out.exc = "GuppyError"
    /\ p_out.err.member_name = "bar"

ImplSideVars == {ExistentialTypeVar(x) : x \in {"A", "B"}}

\* C18: a returned ConcreteImplProof has an entry for exactly the declared
\* members, each with the id of the type's method of that name and one argument
\* per generic parameter of the method, none of them an unsolved variable of the
\* implementation.
C18_MemberImplsComplete ==
    (p_out.tag = "return" /\ p_out.proof.tag = "ConcreteImplProof") =>
        LET member_impls == p_out.proof.member_impls
        IN /\ DOMAIN member_impls = {p_in.members[i].name : i \in DOMAIN p_in.members}
           /\ \A name \in DOMAIN member_impls :
                  /\ name \in DOMAIN p_in.funcs
                  /\ member_impls[name].id = p_in.funcs[name].id
                  /\ Len(member_impls[name].inst) = Len(p_in.funcs[name].ty.params)
                  /\ \A j \in DOMAIN member_impls[name].inst :
                         member_impls[name].inst[j] \notin ImplSideVars

\* A proof for two declared members, both implemented by generic methods.
C18_Witness ==
    /\ p_out.tag = "return"
    /\ p_out.proof.tag = "ConcreteImplProof"
    /\ Len(p_in.members) = 2
    /\ \A name \in DOMAIN p_out.proof.member_impls :
           Len(p_out.proof.member_impls[name].inst) = 1

RequestedVars ==
    {p_in.protocol.type_args[i].n :
        i \in {j \in DOMAIN p_in.protocol.type_args : p_in.protocol.type_args[j].k = "var"}}

\* C19: the substitution check_protocol returns, on either path, binds exactly
\* the unsolved variables of the requested protocol's arguments.
C19_ResidualSubstitution ==
    p_out.tag = "return" => DOMAIN p_out.subst = RequestedVars

\* The requested instantiation with every unsolved argument replaced by the
\* argument of the one matching assumption.
Rewritten ==
    LET impl == p_in.implements[CHOOSE i \in Matching : TRUE]
    IN [def_id |-> p_in.protocol.def_id,
        type_args |-> [i \in DOMAIN p_in.protocol.type_args |->
                          IF p_in.protocol.type_args[i].k = "var" THEN impl.type_args[i]
                          ELSE p_in.protocol.type_args[i]]]

SolvedAssumption(impl) == \A i \in DOMAIN impl.type_args : impl.type_args[i].k # "var"

\* C20: on a bound type variable with exactly one matching assumption, whose
\* arguments are solved, the call returns an AssumptionImplProof whose protocol is
\* the requested instantiation rewritten under the unifier, with no unsolved
\* variable among its arguments.
C20_ProofProtocolRewritten ==
    (/\ CalledOnBound
     /\ Cardinality(Matching) = 1
     /\ \A i \in Matching : SolvedAssumption(p_in.implements[i])) =>
        /\ p_out.tag = "return"
        /\ p_out.proof.tag = "AssumptionImplProof"
        /\ p_out.proof.proto = Rewritten
        /\ \A i \in DOMAIN p_out.proof.proto.type_args :
               p_out.proof.proto.type_args[i].k # "var"

\* C21: _unify_args on two lists of different length returns None: it raises
\* nothing.
C21_LengthMismatchIsNoMatch ==
    (u_out # NotCalled /\ Len(u_in.xs) # Len(u_in.ys)) => u_out.result = NoUnifier

\* The definitions and names the fields of definition d name.
RefsOf(d) == {r_defs.fields[d][i] : i \in DOMAIN r_defs.fields[d]}

\* The definitions reached from d over one or more field references.
RECURSIVE ReachedIn(_, _)
ReachedIn(from, n) ==
    IF n = 0 THEN from
    ELSE ReachedIn(from \cup UNION {RefsOf(x) \cap TypeDefs : x \in from}, n - 1)

ReachedFrom(d) == ReachedIn(RefsOf(d) \cap TypeDefs, Cardinality(TypeDefs))

\* The definitions whose fields are resolved when d is checked: d and what it reaches.
Visited(d) == {d} \cup ReachedFrom(d)

\* Every annotation met when d is checked resolves.
Resolves(d) == \A x \in Visited(d) : "Unknown" \notin RefsOf(x)

CycleReachable(d) == \E x \in Visited(d) : x \in ReachedFrom(x)

RecChecked == r_out # NotCalled

IsRecursionError(res) ==
    /\ res.tag = "raise"
    /\ res.exc = "GuppyError"
    /\ res.err = "UnsupportedError"
    /\ res.things \in {"Recursive structs", "Recursive definitions"}

\* Definition d refers back to itself directly or through one other definition.
RefersBack(d) ==
    \/ d \in RefsOf(d)
    \/ \E x \in (RefsOf(d) \cap TypeDefs) \ {d} : d \in RefsOf(x)

C23_OnlyCyclesRejected ==
    RecChecked =>
        /\ IsRecursionError(r_out.res) => CycleReachable(r_out.d)
        /\ (~CycleReachable(r_out.d) /\ Resolves(r_out.d)) => r_out.res = CheckOk

\* A is checked; it reaches C directly and through B, and the check succeeded.
C23_Witness ==
    /\ RecChecked
    /\ r_out.d = "A"
    /\ RefsOf("A") = {"B", "C"}
    /\ RefsOf("B") = {"C"}
    /\ RefsOf("C") = {}
    /\ r_out.res = CheckOk

\* C24: after the check of a definition ended, normally or with an error, the
\* definition has its own check_instantiate again, and so has every definition
\* check_not_recursive ran on meanwhile.
C24_HookRestored ==
    RecChecked => \A d \in TypeDefs : r_hook[d] = "original"

(***************************************************************************)
(*                 Claims about top-level runs (SpecRuns)                  *)
(***************************************************************************)
\* the top-level call under way, or the one that ended last, has this entry point
RunOn(id) == t_call.kind # "none" /\ t_call.entry = id

\* the CompilerContext made last was made by the run under way
ContextOfThisRun == t_ctx.n > 0 /\ t_ctx.run = t_run

\* C25: check and compile of a definition that still has a generic parameter
\* end with the user error "Invalid entry point" that carries the parameters,
\* and by then nothing is in the checked cache, nothing is lowered and no
\* CompilerContext was made for the run.
C25_InvalidEntryPointIsUserError ==
    \A id \in RunDefs :
        (RunOn(id) /\ IsCheckableGenericDef(id) /\ ParamsOf(id) # <<>>) =>
            /\ t_call.pc = "error"
            /\ t_call.err = EntryMonomorphizeError(ParamsOf(id))
            /\ t_engine.checked = EmptyMap
            /\ t_engine.compiled = EmptyMap
            /\ ~ContextOfThisRun

\* a compile of the generic G1, after an earlier run that checked and lowered
C25_Witness ==
    /\ t_run = 2
    /\ t_call = TopCall("error", "compile", "G1", EntryMonomorphizeError(<<"T">>))
    /\ t_ctx.n = 1
    /\ t_store.raw_defs # {}

\* the caches hold only what the run under way put there
OnlyThisRun ==
    /\ \A id \in DOMAIN t_engine.parsed : t_engine.parsed[id] = t_run
    /\ \A key \in DOMAIN t_engine.checked : t_engine.checked[key] = t_run
    /\ \A key \in DOMAIN t_engine.compiled :
           t_engine.compiled[key] = t_ctx.n /\ ContextOfThisRun
    /\ (t_call.kind = "compile" /\ t_call.pc \in {"lower", "done"}) => ContextOfThisRun

\* a step that starts a top-level call leaves in the caches and on the worklists
\* the entry point only
StartsEmpty ==
    t_run' # t_run =>
        /\ DOMAIN t_engine'.parsed = {t_call'.entry}
        /\ t_engine'.checked = EmptyMap
        /\ t_engine'.compiled = EmptyMap
        /\ Range(t_engine'.types_to_check_worklist) \subseteq {t_call'.entry}
        /\ Range(t_engine'.to_check_worklist) \subseteq {<<t_call'.entry, <<>>>>}

\* C26: every top-level check or compile starts from empty caches and empty
\* worklists, so whatever the caches hold was parsed, checked or compiled by the
\* run under way, and a compile lowers into a CompilerContext made by itself.
C26_RunsStartFromEmptyCaches == []OnlyThisRun /\ [][StartsEmpty]_vars

\* a second run, a compile, has ended after a first run that left definitions
\* parsed, checked and compiled
C26_Witness ==
    /\ t_run = 2
    /\ t_call.pc = "done"
    /\ t_call.kind = "compile"
    /\ t_ctx = Context(2, 2)
    /\ DOMAIN t_engine.compiled # {}
    /\ Cardinality(DOMAIN t_engine.checked) > 1

\* C28: once a struct or an enum definition is in the checked cache, each of its
\* generated constructors is a definition of the store and the store's instance
\* method of that name on the type.
C28_ConstructorsRegistered ==
    \A id \in RunDefs :
        ((IsStructDef(id) \/ IsEnumDef(id)) /\ <<id, <<>>>> \in DOMAIN t_engine.checked) =>
            \A name \in Range(generated_methods(id)) :
                /\ <<id, name>> \in DOMAIN t_store.impls
                /\ t_store.impls[<<id, name>>] \in t_store.raw_defs
                /\ t_store.impls[<<id, name>>].of = id

(***************************************************************************)
(*          Claims about what get_parsed enqueues (SpecEngine)             *)
(***************************************************************************)
TopFrame == estack[Len(estack)]

\* a user error unwinds the whole stack and leaves the caches as they are
Unwinds == estack' = <<>> /\ epc' = "error" /\ parsed' = parsed

\* the step in which defn.parse has returned and get_parsed stores the parsed
\* definition (lines 205-209)
ParseEnds ==
    /\ estack # <<>>
    /\ TopFrame.kind = "parse"
    /\ estack' # estack
    /\ Len(estack') <= Len(estack)
    /\ ~Unwinds

\* the step of a register_generic_use call made by a running check
RegisterStep ==
    /\ estack # <<>>
    /\ TopFrame.kind = "check"
    /\ estack' = estack
    /\ ecalls' = ecalls + 1

NewOnTypes == Range(types_to_check_worklist') \ Range(types_to_check_worklist)

NewOnGeneral == Range(to_check_worklist') \ Range(to_check_worklist)

\* the key check itself puts on the general worklist in the step where the
\* get_parsed of its entry point returns (line 266)
SeededByCheck ==
    IF ParseEnds /\ TopFrame.cont = "entry" /\ epc' = "drain"
    THEN {<<TopFrame.id, <<>>>>} ELSE {}

\* what get_parsed puts on the two worklists for a freshly parsed definition
ParsedOntoTypes(id) == IF IsTypeDef(id) THEN {id} ELSE {}

ParsedOntoGeneral(id) ==
    IF ~IsTypeDef(id) /\ IsCheckableDef(id) THEN {<<id, <<>>>>} ELSE {}

\* get_parsed parses a definition once and enqueues it then and only then
GetParsedEnqueuesOnce ==
    /\ ParseEnds =>
          /\ TopFrame.id \notin parsed
          /\ NewOnTypes = ParsedOntoTypes(TopFrame.id)
          /\ ParsedOntoGeneral(TopFrame.id) \subseteq NewOnGeneral
          /\ NewOnGeneral \subseteq ParsedOntoGeneral(TopFrame.id) \cup SeededByCheck
    /\ ~ParseEnds =>
          /\ NewOnTypes = {}
          /\ \A key \in NewOnGeneral : IsCheckableGenericDef(key[1])

RegisteredUse(key) == RegisterStep /\ key[2] \in MonoArgsOf(key[1])

CallKey(i) ==
    <<g_log[i].key[1], IF g_log[i].key[2] = NoneArgs THEN <<>> ELSE g_log[i].key[2]>>

DeclCalls == 1..Len(g_log)

\* C29: over any sequence of declare_global_func calls, a call returns True
\* exactly when an earlier call had its key, two calls return the same builder
\* exactly when they have the same key, and the module holds one function per
\* key, the builders returned.
C29_DefinedOncePerKey ==
    /\ \A i \in DeclCalls :
           g_log[i].already <=> \E j \in 1..(i - 1) : CallKey(j) = CallKey(i)
    /\ \A i, j \in DeclCalls :
           (CallKey(i) = CallKey(j)) <=> (g_log[i].func = g_log[j].func)
    /\ Len(g_module) = Cardinality({CallKey(i) : i \in DeclCalls})
    /\ Range(g_module) = {g_log[i].func : i \in DeclCalls}
    /\ \A m, n \in 1..Len(g_module) : g_module[m].node = g_module[n].node => m = n

\* a key asked for twice, once without type_args and once with the empty
\* instantiation and another function type, then the same name and args under
\* another const id, then other args
C29_Witness ==
    /\ Len(g_log) = 3
    /\ g_log[1].key = <<GlobalConstId(1, "f"), NoneArgs>>
    /\ g_log[2].key = <<GlobalConstId(1, "f"), <<>>>>
    /\ g_log[2].already
    /\ g_log[3].key = <<GlobalConstId(2, "f"), <<>>>>
    /\ ~g_log[3].already
    /\ Len(g_module) = 2

(***************************************************************************)
(*            Claims about require_monomorphization (SpecReq)              *)
(***************************************************************************)
\* the const parameters of q_in whose type is not nat
NonNatConsts == {p \in Range(q_in) : p.kind = "ConstParam" /\ p.ty.nat = FALSE}

\* the parameters of q_in that the type of such a const parameter refers to
ReferredByNonNat == {p \in Range(q_in) : \E c \in NonNatConsts : p.idx \in c.ty.bound_vars}

\* C30: require_monomorphization(params) is the set of the const parameters with
\* a type other than nat and of the parameters their types refer to; a
\* nat-typed const parameter or a type parameter that no such type refers to is
\* not in it.
C30_ExactlyNonNatAndReferred ==
    q_out # NotCalled =>
        /\ q_out.result = NonNatConsts \cup ReferredByNonNat
        /\ \A p \in Range(q_in) :
               (p \notin NonNatConsts /\ p \notin ReferredByNonNat) => p \notin q_out.result

\* three parameters: a type parameter and a nat const that the third, a non-nat
\* const, refers to
C30_Witness ==
    /\ q_in = <<TypeParam(0), ConstParam(1, ConstTy(TRUE, {})),
                ConstParam(2, ConstTy(FALSE, {0, 1}))>>
    /\ q_out # NotCalled
    /\ Cardinality(q_out.result) = 3

(***************************************************************************)
(*       Claims about the error classes of check_protocol (SpecProto)      *)
(***************************************************************************)
\* the assumptions of a call that name the requested protocol and agree with its
\* arguments wherever both are solved
MatchingIn(inp) ==
    {i \in DOMAIN inp.implements :
        /\ inp.implements[i].def_id = inp.protocol.def_id
        /\ \A j \in DOMAIN inp.implements[i].type_args :
               \/ inp.protocol.type_args[j].k = "var"
               \/ inp.implements[i].type_args[j].k = "var"
               \/ inp.protocol.type_args[j] = inp.implements[i].type_args[j]}

AbsentAssumption(inp) == inp.ty.k = "bound" /\ MatchingIn(inp) = {}

AmbiguousAssumption(inp) == inp.ty.k = "bound" /\ Cardinality(MatchingIn(inp)) > 1

\* the call failed for a reason that lies in the program checked: a missing
\* member, a signature mismatch, unresolved implementation variables, an
\* uninferable protocol parameter, an absent or an ambiguous assumption
FailedOnUserProgram ==
    /\ p_out # NotCalled
    /\ p_out.tag = "raise"
    /\ p_out.exc \in {"GuppyError", "Exception"}

\* C31: a failure of check_protocol that the checked program causes is a
\* GuppyError, and the failure reported for an absent assumption differs from
\* the one reported for an ambiguous assumption.
C31_UserFailuresAreUserErrors ==
    /\ FailedOnUserProgram => p_out.exc = "GuppyError"
    /\ (p_out # NotCalled /\ AbsentAssumption(p_in)) =>
           \A other \in ProtoInputs :
               AmbiguousAssumption(other) => check_protocol(other) # p_out

(***************************************************************************)
(*             Claims about RawEnumDef.parse (SpecEnum)                    *)
(***************************************************************************)
EnumParsed == n_out # NotCalled

StmtsAt(kind) == {i \in DOMAIN n_body : n_body[i].stmt = kind}

\* C32: a class body whose one statement besides `pass` assigns a tuple of names
\* to a tuple of dicts is accepted, and the enum has one variant per name with
\* the fields of the dict at the same position.
C32_TupleUnpackingDeclaresVariants ==
    (/\ EnumParsed
     /\ Cardinality(StmtsAt("TupleAssign")) = 1
     /\ StmtsAt("Pass") \cup StmtsAt("TupleAssign") = DOMAIN n_body) =>
        /\ n_out.tag = "ParsedEnumDef"
        /\ LET node == n_body[CHOOSE i \in StmtsAt("TupleAssign") : TRUE]
           IN {<<n_out.variants[k].name, n_out.variants[k].fields>> :
                   k \in DOMAIN n_out.variants}
              = {<<TupleTargets[k], TupleDicts(node)[k]>> : k \in DOMAIN TupleTargets}

\* the functions and the variants the class body defines
DefinedFuncs == {n_body[i].name : i \in StmtsAt("FunctionDef")}

DefinedVariants == {n_body[i].name : i \in StmtsAt("Assign")}

Clashing == DefinedFuncs \cap DefinedVariants

\* nothing else is wrong with the body: it has only `pass`, functions and
\* variants, a docstring at most at its start, no variant twice and no field
\* twice in a variant
NothingElseWrong ==
    /\ StmtsAt("Other") = {} /\ StmtsAt("TupleAssign") = {}
    /\ StmtsAt("Doc") \subseteq {1}
    /\ \A i, j \in StmtsAt("Assign") : n_body[i].name = n_body[j].name => i = j
    /\ \A i \in StmtsAt("Assign") :
           \A k, l \in DOMAIN n_body[i].fields :
               n_body[i].fields[k] = n_body[i].fields[l] => k = l

FirstDefinedAt(name) ==
    CHOOSE i \in StmtsAt("FunctionDef") :
        /\ n_body[i].name = name
        /\ \A j \in StmtsAt("FunctionDef") : n_body[j].name = name => i <= j

LastDefinedAt(name) ==
    CHOOSE i \in StmtsAt("FunctionDef") :
        /\ n_body[i].name = name
        /\ \A j \in StmtsAt("FunctionDef") : n_body[j].name = name => j <= i

\* a function whose name is not a variant's and whose last definition has no
\* @guppy decorator
NonGuppy == {name \in DefinedFuncs \ Clashing : ~n_body[LastDefinedAt(name)].guppy}

\* C33 as stated: parsing an enum in which a function has the name of a variant
\* fails with the duplicate-variant error that names the enum and that name,
\* never with the not-a-Guppy-method error.
C33_Original ==
    (EnumParsed /\ NothingElseWrong /\ Clashing # {}) =>
        \E name \in Clashing : n_out = DuplicateVariantError(EnumName, name)

\* C33, amended: the functions are gone through in the order of their first
\* definition; the first one that has a variant's name or is not a Guppy method
\* decides the error, and for a function that has both faults it is the
\* duplicate-variant error, wherever the variant stands in the body.
C33_FirstFaultyFunctionDecides ==
    (EnumParsed /\ NothingElseWrong /\ Clashing # {}) =>
        LET faulty == Clashing \cup NonGuppy
            first == CHOOSE name \in faulty :
                         \A other \in faulty : FirstDefinedAt(name) <= FirstDefinedAt(other)
        IN n_out = IF first \in Clashing
                   THEN DuplicateVariantError(EnumName, first)
                   ELSE NonGuppyMethodError(EnumName, first)

\* the function comes first and the variant of its name after it, so the class
\* attribute of that name is no Guppy definition, and the error is the
\* duplicate variant
C33_Witness ==
    /\ n_body = <<Stmt("FunctionDef", "A", TRUE, <<>>), Stmt("Assign", "A", FALSE, <<"x">>)>>
    /\ n_out = DuplicateVariantError(EnumName, "A")

(***************************************************************************)
(*        Claims about the current monomorphization (SpecCompile)          *)
(***************************************************************************)
\* the step in which the lowering of a body ends, by return or by an error
LoweringEnds == cpc = "lowering" /\ cpc' # "lowering"

\* C34: while a body is lowered current_mono_args is the monomorphization of its
\* MonoDefId, and when its lowering ends, by return or by an error,
\* current_mono_args is what it was before the body was entered.
C34_MonoArgsScoped ==
    /\ [](cpc = "lowering" => current_mono_args = lowering[1][2])
    /\ [][LoweringEnds => current_mono_args' = lowering[2]]_vars

(***************************************************************************)
(*            Claims about scopes in the tracked interval                  *)
(***************************************************************************)
RECURSIVE IsBelow(_, _)
IsBelow(i, scope) ==
    /\ hugr[i].parent # 0
    /\ (hugr[i].parent = scope \/ IsBelow(hugr[i].parent, scope))

\* a node with a side effect was added below the scope during the interval
HasEffectBelow(scope) == \E i \in 1..Len(hugr) : SideEffectLeaf(i) /\ IsBelow(i, scope)

LinksAt(i) == {k \in 1..Len(order_links) : order_links[k][1] = i \/ order_links[k][2] = i}

\* the scope's node was recorded in its parent scope and has an order edge from
\* a node of that scope
OrderedInParent(scope) ==
    /\ \E k \in 1..Len(recorded) : recorded[k] = <<hugr[scope].parent, scope>>
    /\ \E k \in 1..Len(order_links) :
           /\ order_links[k][2] = scope
           /\ hugr[order_links[k][1]].parent = hugr[scope].parent

\* C35: once a node with a side effect was added below a scope, the scope's node
\* is recorded and ordered in its parent scope, at every level below the function
\* definition; a Case or a DataflowBlock has no order edge and is not recorded,
\* its Conditional or CFG is ordered instead; the function definition and the
\* module have no order edge, and neither has a scope without a side effect
\* below it.
C35_ScopeOrderedInParent ==
    \A scope \in 1..Len(hugr) :
        CASE hugr[scope].op.kind \in {"DFG", "Conditional", "CFG"} ->
                 IF HasEffectBelow(scope) THEN OrderedInParent(scope)
                 ELSE LinksAt(scope) = {}
          [] hugr[scope].op.kind \in {"Case", "DataflowBlock", "FuncDefn", "Module"} ->
                 /\ LinksAt(scope) = {}
                 /\ \A k \in 1..Len(recorded) : recorded[k][2] # scope
          [] OTHER -> TRUE

\* a side-effecting operation was added to the second Case of a Conditional: the
\* Conditional has the order edge from the Input node of the function body
C35_Witness ==
    \E c, case1, case2, i \in 1..Len(hugr) :
        /\ hugr[c].op.kind = "Conditional" /\ hugr[c].parent = 2
        /\ hugr[case1].op.kind = "Case" /\ hugr[case1].parent = c
        /\ hugr[case2].op.kind = "Case" /\ hugr[case2].parent = c /\ case1 < case2
        /\ SideEffectLeaf(i) /\ hugr[i].parent = case2
        /\ <<InputOf(2), c>> \in Links
        /\ <<InputOf(case2), i>> \in Links

\* the nodes an order edge path of at most n edges leads to from the nodes of S
RECURSIVE OrderedAfter(_, _)
OrderedAfter(S, n) ==
    IF n = 0 THEN {}
    ELSE LET next == {l[2] : l \in {m \in Links : m[1] \in S}}
         IN next \cup OrderedAfter(next, n - 1)

\* C38: the order edges have no self-loop and no cycle.
C38_OrderEdgesAcyclic ==
    \A i \in 1..Len(hugr) : i \notin OrderedAfter({i}, Len(order_links))

(***************************************************************************)
(*                 Claims about the end of ENGINE.check                    *)
(***************************************************************************)
CheckReturnsNormally == epc = "drain" /\ epc' = "done"

\* C36: check returns normally only with both worklists empty, and then every key
\* that was put on either worklist since reset() is in the checked cache.
C36_AllEnqueuedChecked ==
    [][CheckReturnsNormally =>
          /\ types_to_check_worklist' = <<>>
          /\ to_check_worklist' = <<>>
          /\ \A t \in typesEnqueued' : <<t, <<>>>> \in checked'
          /\ generalEnqueued' \subseteq checked']_vars

\* check has just returned after three takes of the loop; an instantiation of the
\* generic G1 registered by the checker and a type parsed on the way were taken
C36_Witness ==
    /\ epc = "done"
    /\ ecalls <= 2
    /\ Len(popLog) >= 3
    /\ typesEnqueued # {}
    /\ \E mono \in MonoArgsOf("G1") : <<"G1", mono>> \in generalEnqueued
    /\ checked = generalEnqueued \cup {<<t, <<>>>> : t \in typesEnqueued}

(***************************************************************************)
(*          Claims about the end of the nested checks (SpecRec)            *)
(***************************************************************************)
\* the field references lead from A to B, from B to C and from C back to A
ThreeCycle ==
    /\ RefsOf("A") = {"B"}
    /\ RefsOf("B") = {"C"}
    /\ RefsOf("C") = {"A"}

\* C37: the check of a definition ends, and no definition is entered again while
\* its own check is in progress; when a cycle of references is reached (every
\* annotation met resolving), the check ends with the user error for recursive
\* definitions.
C37_NestedChecksEnd ==
    RecChecked =>
        /\ r_out.res # PythonRecursionError
        /\ (CycleReachable(r_out.d) /\ Resolves(r_out.d)) => IsRecursionError(r_out.res)

\* the enum A of a cycle through three definitions was checked and rejected
C37_Witness ==
    /\ RecChecked
    /\ r_out.d = "A"
    /\ r_defs.kind["A"] = "enum"
    /\ ThreeCycle
    /\ IsRecursionError(r_out.res)

(***************************************************************************)
(*        Claims about lookups after assignments (DFContainer)             *)
(***************************************************************************)
\* The wires a wire is built from: the inputs of the packings behind it, down to
\* wires that no MakeTuple made.
RECURSIVE BuiltFrom(_)
BuiltFrom(wire) ==
    IF PackOutput(wire)
    THEN UNION {BuiltFrom(df_ops[wire.node].inputs[i]) :
                   i \in DOMAIN df_ops[wire.node].inputs}
    ELSE {wire}

\* C39: the wire a lookup returns for a struct or tuple place (other than a
\* return-value variable) is built from the wires its leaf sub-places hold at
\* that moment, which are the wires assigned to them last: no wire cached by an
\* earlier lookup is returned once a field was assigned again.
C39_LookupSeesLastAssignment ==
    (/\ df_last.call = "get"
     /\ IsComposite(df_last.place)
     /\ ~IsReturnPlace(df_last.place)
     /\ df_last.result.tag = "wire") =>
        \A q \in LeafPlaces(df_last.place) :
            q \in DOMAIN df_last.before =>
                df_last.before[q] \in BuiltFrom(df_last.result.wire)

====
